---- MODULE Spec2Model ----
(***************************************************************************)
(* Model of the invest backend: the users table and its accessor           *)
(* (src/db/index.js), session issuance (src/routes/auth.js), the admin     *)
(* gate (src/routes/admin.js, src/routes/track.js) and the Stripe          *)
(* entitlement reconciler (src/routes/stripe.js).                          *)
(*                                                                         *)
(* A handler that awaits several SQL statements is a process whose steps   *)
(* are the statements; handlers with one statement are single actions.     *)
(* A store call that rejects is the input dbOk = FALSE of the step.        *)
(***************************************************************************)
EXTENDS Integers, Sequences, FiniteSets, TLC

VARIABLES
    users,      \* the users table: a set of rows
    serial,     \* last value handed out by the SERIAL sequence of users.id
    now,        \* NOW(): the store's clock while the process runs
    tokens,     \* claims of the session tokens signed so far
    procs,      \* in-flight checkout handlers, one per request slot
    resp,       \* the last response sent, with the request it answers
    env,        \* process.env
    features,   \* the features table: key -> enabled
    settings,   \* the settings table: key -> value
    hist,       \* history: the checkout session under test and the table before it
    boot,       \* server.js module scope: _dbInitialized, _dbInitPromise, requests in the middleware
    signups,    \* POST /email/signup handlers between their lookup and their INSERT
    page        \* the browser page that runs the site-lock script

vars == <<users, serial, now, tokens, procs, resp, env, features, settings, hist,
          boot, signups, page>>

(***************************************************************************)
(* Bounds                                                                  *)
(***************************************************************************)
MaxSerial == 3
MaxClock  == 1
MaxProcs  == 2
MaxCount  == 2      \* completed handlers counted up to this number

(***************************************************************************)
(* Values                                                                  *)
(***************************************************************************)
Null == "null"          \* SQL NULL, JS null and undefined

Emails    == {"u@x.com", "Admin@X.com"}
Passwords == {"1234567", "password123"}
Customers == {"cus_1", "cus_2"}
Tiers     == {"free", "premium"}

\* String.prototype.toLowerCase on the addresses of the model.
ToLowerCase(s) ==
    CASE s = "Admin@X.com"  -> "admin@x.com"
      [] s = "ADMIN@x.com"  -> "admin@x.com"
      [] s = "U@x.com"      -> "u@x.com"
      [] OTHER              -> s

(***************************************************************************)
(* parseInt(s, 10). A string is a sequence of characters; the characters   *)
(* 0..9 are the digits, NonDigit is any other character. A missing value   *)
(* and the empty string are both <<>> (parseInt gives NaN for both).       *)
(***************************************************************************)
NonDigit == 10
NaN      == -1

RECURSIVE DigitsValue(_, _)
DigitsValue(s, acc) ==
    IF s = <<>> \/ Head(s) = NonDigit
    THEN acc
    ELSE DigitsValue(Tail(s), acc * 10 + Head(s))

ParseInt(s) ==
    IF s = <<>> \/ Head(s) = NonDigit THEN NaN ELSE DigitsValue(s, 0)

\* JS truthiness of a number: 0 and NaN are falsy.
Truthy(n) == n # 0 /\ n # NaN

(***************************************************************************)
(* The users table (initDB) and the statements of src/db/index.js          *)
(***************************************************************************)
NewRow(id, email, name, picture, provider, provider_id, password_hash) ==
    [ id                  |-> id,
      email               |-> email,
      name                |-> name,
      picture             |-> picture,
      provider            |-> provider,
      provider_id         |-> provider_id,
      password_hash       |-> password_hash,
      subscription_status |-> "free",
      is_admin            |-> FALSE,
      has_book            |-> FALSE,
      stripe_customer_id  |-> Null,
      last_login          |-> now ]

RowsById(tbl, id)       == { r \in tbl : r.id = id }
RowsByEmail(tbl, email) == { r \in tbl : r.email = email }

\* SELECT ... FROM users WHERE id = ${id}; rows[0] || null
getUserById(tbl, id) ==
    IF RowsById(tbl, id) = {} THEN {} ELSE { CHOOSE r \in RowsById(tbl, id) : TRUE }

\* SELECT ... FROM users WHERE email = ${email}
getUserByEmail(tbl, email) ==
    IF RowsByEmail(tbl, email) = {} THEN {}
    ELSE { CHOOSE r \in RowsByEmail(tbl, email) : TRUE }

\* UPDATE users SET <field> = <value> WHERE id = ${id}
UpdateById(tbl, id, field, value) ==
    { IF r.id = id THEN [r EXCEPT ![field] = value] ELSE r : r \in tbl }

\* The same UPDATE without its WHERE clause.
UpdateTierEveryRow(tbl, customer, tier) ==
    { [r EXCEPT !.subscription_status = tier] : r \in tbl }

\* The same UPDATE also dropping the customer reference of the rows it matches.
UpdateTierDroppingCustomer(tbl, customer, tier) ==
    { IF r.stripe_customer_id # Null /\ customer # Null /\ r.stripe_customer_id = customer
      THEN [r EXCEPT !.subscription_status = tier, !.stripe_customer_id = Null]
      ELSE r : r \in tbl }

\* The same UPDATE also matching the rows that have no customer reference.
UpdateTierOrUnlinked(tbl, customer, tier) ==
    { IF r.stripe_customer_id = Null \/ r.stripe_customer_id = customer
      THEN [r EXCEPT !.subscription_status = tier]
      ELSE r : r \in tbl }

\* UPDATE users SET subscription_status = <tier> WHERE stripe_customer_id = ${customer}
\* (a NULL column never equals the parameter, whatever the parameter is)
UpdateTierByCustomer(tbl, customer, tier) ==
    { IF r.stripe_customer_id # Null /\ customer # Null /\ r.stripe_customer_id = customer
      THEN [r EXCEPT !.subscription_status = tier]
      ELSE r : r \in tbl }

(***************************************************************************)
(* Stripe objects                                                          *)
(***************************************************************************)
MetaUserIds == { <<>>, <<0>>, <<1>>, <<2>>, <<NonDigit>> }

\* A checkout session as stripe.checkout.sessions.retrieve returns it and as
\* event.data.object of checkout.session.completed carries it.
Sessions ==
    [ payment_status : {"paid", "unpaid", "no_payment_required"},
      mode           : {"payment", "subscription"},
      subscription   : {Null, "sub_1"},
      customer       : {Null} \cup Customers,
      user_id        : MetaUserIds,
      type           : {Null, "book", "premium"} ]

\* The session a request has when it has none.
NoSession ==
    [ payment_status |-> Null, mode |-> Null, subscription |-> Null,
      customer |-> Null, user_id |-> <<>>, type |-> Null ]

SubStatuses == {"active", "trialing", "canceled"}

Signatures == {"valid", "invalid", Null}

\* isPaid of GET /checkout-success
IsPaid(session) ==
    \/ session.payment_status = "paid"
    \/ (session.mode = "subscription" /\ session.subscription # Null)

\* updates that always carry stripe_customer_id, whatever session.customer is.
UpdateKeysWithCustomer(customer, type) ==
    {"stripe_customer_id"}
    \cup (IF type = "book" THEN {"has_book"} ELSE {})
    \cup (IF type = "premium" THEN {"subscription_status"} ELSE {})

\* Object.keys(updates) as both checkout handlers build it from
\* session.customer and session.metadata.type
UpdateKeys(customer, type) ==
    (IF customer # Null THEN {"stripe_customer_id"} ELSE {})
    \cup (IF type = "book" THEN {"has_book"} ELSE {})
    \cup (IF type = "premium" THEN {"subscription_status"} ELSE {})

\* updates[field]
UpdateValue(customer, field) ==
    CASE field = "stripe_customer_id"  -> customer
      [] field = "has_book"            -> TRUE
      [] field = "subscription_status" -> "premium"

\* The order in which updateUserStripe issues its statements.
FieldOrder == <<"stripe_customer_id", "has_book", "subscription_status">>

\* The first statement of updateUserStripe at or after position i that the
\* updates object asks for; "respond" when there is none.
RECURSIVE NextStatement(_, _)
NextStatement(keys, i) ==
    IF i > Len(FieldOrder) THEN "respond"
    ELSE IF FieldOrder[i] \in keys THEN FieldOrder[i]
    ELSE NextStatement(keys, i + 1)

PositionOf(field) == CHOOSE i \in 1..Len(FieldOrder) : FieldOrder[i] = field

\* updateUserStripe(id, updates) run to completion with no other statement
\* in between and no statement rejected.
RECURSIVE RunFrom(_, _, _, _, _)
RunFrom(tbl, id, customer, type, pc) ==
    IF pc = "respond" THEN tbl
    ELSE RunFrom(UpdateById(tbl, id, pc, UpdateValue(customer, pc)), id, customer, type,
                 NextStatement(UpdateKeys(customer, type), PositionOf(pc) + 1))

updateUserStripe(tbl, id, customer, type) ==
    RunFrom(tbl, id, customer, type, NextStatement(UpdateKeys(customer, type), 1))

(***************************************************************************)
(* Request slots and responses                                             *)
(***************************************************************************)
Slots == 1..MaxProcs

\* The locals a checkout handler keeps across its awaits.
Proc(kind, userId, type, customer, pc) ==
    [ kind |-> kind, userId |-> userId, type |-> type, customer |-> customer, pc |-> pc ]

Idle == Proc("idle", 0, Null, Null, "respond")

\* The payload of a session token: signJWT's first argument.
Claims(id, email, is_admin) == [ id |-> id, email |-> email, is_admin |-> is_admin ]

NoClaims == Claims(0, Null, FALSE)

\* A response without a session token, and one that carries a token (the
\* ia_auth cookie and the token of the body are the same string).
Response(route, status, body, req) ==
    [ route |-> route, status |-> status, body |-> body, req |-> req, token |-> NoClaims ]

SessionResponse(route, status, req, claims) ==
    [ route |-> route, status |-> status, body |-> "ok", req |-> req, token |-> claims ]

NoRequest == [ sig |-> Null, type |-> Null, dispatched |-> FALSE, ok |-> TRUE ]

\* What a sign-in or sign-up request carried, as far as the handler read it:
\* the provider's assertion (credential / id_token), the email, the password,
\* and whether every store call the handler reached resolved.
AuthReq(credential, email, password, ok) ==
    [ credential |-> credential, email |-> email, password |-> password, ok |-> ok ]

AllIdle == \A i \in Slots : procs[i].kind = "idle"

(***************************************************************************)
(* POST /api/stripe/webhook                                                *)
(***************************************************************************)
WebhookReq(sig, event, dispatched, ok) ==
    [ sig |-> sig, type |-> event.type, dispatched |-> dispatched, ok |-> ok ]

\* constructEvent that parses the body without checking the signature.
ConstructEventUnverified(sig) == env.STRIPE_SECRET_KEY

\* stripe.webhooks.constructEvent returns the event; getStripe and the
\* signature check are the two ways it throws.
ConstructEventOk(sig) == env.STRIPE_SECRET_KEY /\ sig = "valid"

\* The acknowledgement turned into an error when the store call rejected.
ReceivedUnlessFailed(sig, event, ok) ==
    Response("webhook", IF ok THEN 200 ELSE 500, IF ok THEN "received" ELSE "failed",
             WebhookReq(sig, event, TRUE, ok))

Received(sig, event, ok) ==
    Response("webhook", 200, "received", WebhookReq(sig, event, TRUE, ok))

\* The handler downgrading the customer when an invoice payment fails.
stripeWebhookDowngrading(slot, sig, event, dbOk) ==
    /\ procs[slot].kind = "idle"
    /\ UNCHANGED <<serial, now, tokens, env, features, settings>>
    /\ IF ~env.STRIPE_WEBHOOK_SECRET
       THEN /\ resp' = Response("webhook", 500, "Webhook secret not configured",
                                WebhookReq(sig, event, FALSE, TRUE))
            /\ UNCHANGED <<users, procs>>
       ELSE IF ~ConstructEventOk(sig)
       THEN /\ resp' = Response("webhook", 400, "Webhook Error",
                                WebhookReq(sig, event, FALSE, TRUE))
            /\ UNCHANGED <<users, procs>>
       ELSE CASE event.type = "checkout.session.completed" ->
                   LET session == event.object
                       userId  == ParseInt(session.user_id)
                       first   == NextStatement(UpdateKeys(session.customer, session.type), 1)
                   IN  IF ~Truthy(userId) \/ first = "respond"
                       THEN /\ resp' = Received(sig, event, TRUE)
                            /\ UNCHANGED <<users, procs>>
                       ELSE /\ procs' = [procs EXCEPT ![slot] =
                                   Proc("webhook", userId, session.type, session.customer, first)]
                            /\ UNCHANGED <<users, resp>>
              [] event.type \in {"customer.subscription.deleted", "invoice.payment_failed"} ->
                   /\ users' = IF dbOk
                               THEN UpdateTierByCustomer(users, event.object.customer, "free")
                               ELSE users
                   /\ resp' = Received(sig, event, dbOk)
                   /\ UNCHANGED procs
              [] event.type = "customer.subscription.updated" ->
                   LET isActive == event.object.status \in {"active", "trialing"}
                   IN  /\ users' = IF dbOk
                                   THEN UpdateTierByCustomer(users, event.object.customer,
                                            IF isActive THEN "premium" ELSE "free")
                                   ELSE users
                       /\ resp' = Received(sig, event, dbOk)
                       /\ UNCHANGED procs
              [] OTHER ->
                   /\ resp' = Received(sig, event, TRUE)
                   /\ UNCHANGED <<users, procs>>

stripeWebhook(slot, sig, event, dbOk) ==
    /\ procs[slot].kind = "idle"
    /\ UNCHANGED <<serial, now, tokens, env, features, settings>>
    /\ IF ~env.STRIPE_WEBHOOK_SECRET
       THEN /\ resp' = Response("webhook", 500, "Webhook secret not configured",
                                WebhookReq(sig, event, FALSE, TRUE))
            /\ UNCHANGED <<users, procs>>
       ELSE IF ~ConstructEventOk(sig)
       THEN /\ resp' = Response("webhook", 400, "Webhook Error",
                                WebhookReq(sig, event, FALSE, TRUE))
            /\ UNCHANGED <<users, procs>>
       ELSE CASE event.type = "checkout.session.completed" ->
                   LET session == event.object
                       userId  == ParseInt(session.user_id)
                       first   == NextStatement(UpdateKeys(session.customer, session.type), 1)
                   IN  IF ~Truthy(userId) \/ first = "respond"
                       THEN /\ resp' = Received(sig, event, TRUE)
                            /\ UNCHANGED <<users, procs>>
                       ELSE /\ procs' = [procs EXCEPT ![slot] =
                                   Proc("webhook", userId, session.type, session.customer, first)]
                            /\ UNCHANGED <<users, resp>>
              [] event.type = "customer.subscription.deleted" ->
                   /\ users' = IF dbOk
                               THEN UpdateTierByCustomer(users, event.object.customer, "free")
                               ELSE users
                   /\ resp' = Received(sig, event, dbOk)
                   /\ UNCHANGED procs
              [] event.type = "customer.subscription.updated" ->
                   LET isActive == event.object.status \in {"active", "trialing"}
                   IN  /\ users' = IF dbOk
                                   THEN UpdateTierByCustomer(users, event.object.customer,
                                            IF isActive THEN "premium" ELSE "free")
                                   ELSE users
                       /\ resp' = Received(sig, event, dbOk)
                       /\ UNCHANGED procs
              [] OTHER ->
                   /\ resp' = Received(sig, event, TRUE)
                   /\ UNCHANGED <<users, procs>>

(***************************************************************************)
(* GET /api/stripe/checkout-success                                        *)
(***************************************************************************)
SuccessPage(type) == IF type = "book" THEN "/book-download.html" ELSE "/premium-hub.html"

RedirectReq(ok) == [ sig |-> Null, type |-> "checkout-success", dispatched |-> ok, ok |-> ok ]

\* The redirect handler leaving the tier out of its updates object.
checkoutSuccessNoTier(slot, hasId, retrieveOk, session) ==
    /\ procs[slot].kind = "idle"
    /\ UNCHANGED <<users, serial, now, tokens, env, features, settings>>
    /\ IF ~hasId
       THEN /\ resp' = Response("checkout-success", 302, "/index.html", RedirectReq(FALSE))
            /\ UNCHANGED procs
       ELSE IF ~env.STRIPE_SECRET_KEY \/ ~retrieveOk
       THEN /\ resp' = Response("checkout-success", 302, "/my-account.html", RedirectReq(FALSE))
            /\ UNCHANGED procs
       ELSE LET userId == ParseInt(session.user_id)
                type   == IF session.type = "premium" THEN Null ELSE session.type
                keys   == UpdateKeys(session.customer, type)
            IN  IF IsPaid(session) /\ Truthy(userId) /\ keys # {}
                THEN /\ procs' = [procs EXCEPT ![slot] =
                            Proc("redirect", userId, type, session.customer,
                                 NextStatement(keys, 1))]
                     /\ UNCHANGED resp
                ELSE /\ resp' = Response("checkout-success", 302, SuccessPage(session.type),
                                         RedirectReq(TRUE))
                     /\ UNCHANGED procs

\* The redirect handler applying the session whether it is paid or not.
checkoutSuccessUnpaid(slot, hasId, retrieveOk, session) ==
    /\ procs[slot].kind = "idle"
    /\ UNCHANGED <<users, serial, now, tokens, env, features, settings>>
    /\ IF ~hasId
       THEN /\ resp' = Response("checkout-success", 302, "/index.html", RedirectReq(FALSE))
            /\ UNCHANGED procs
       ELSE IF ~env.STRIPE_SECRET_KEY \/ ~retrieveOk
       THEN /\ resp' = Response("checkout-success", 302, "/my-account.html", RedirectReq(FALSE))
            /\ UNCHANGED procs
       ELSE LET userId == ParseInt(session.user_id)
                keys   == UpdateKeys(session.customer, session.type)
            IN  IF Truthy(userId) /\ keys # {}
                THEN /\ procs' = [procs EXCEPT ![slot] =
                            Proc("redirect", userId, session.type, session.customer,
                                 NextStatement(keys, 1))]
                     /\ UNCHANGED resp
                ELSE /\ resp' = Response("checkout-success", 302, SuccessPage(session.type),
                                         RedirectReq(TRUE))
                     /\ UNCHANGED procs

\* hasId: the query carries session_id; retrieveOk: sessions.retrieve resolves
checkoutSuccess(slot, hasId, retrieveOk, session) ==
    /\ procs[slot].kind = "idle"
    /\ UNCHANGED <<users, serial, now, tokens, env, features, settings>>
    /\ IF ~hasId
       THEN /\ resp' = Response("checkout-success", 302, "/index.html", RedirectReq(FALSE))
            /\ UNCHANGED procs
       ELSE IF ~env.STRIPE_SECRET_KEY \/ ~retrieveOk
       THEN /\ resp' = Response("checkout-success", 302, "/my-account.html", RedirectReq(FALSE))
            /\ UNCHANGED procs
       ELSE LET userId == ParseInt(session.user_id)
                keys   == UpdateKeys(session.customer, session.type)
            IN  IF IsPaid(session) /\ Truthy(userId) /\ keys # {}
                THEN /\ procs' = [procs EXCEPT ![slot] =
                            Proc("redirect", userId, session.type, session.customer,
                                 NextStatement(keys, 1))]
                     /\ UNCHANGED resp
                ELSE /\ resp' = Response("checkout-success", 302, SuccessPage(session.type),
                                         RedirectReq(TRUE))
                     /\ UNCHANGED procs

(***************************************************************************)
(* One awaited statement of updateUserStripe inside either checkout        *)
(* handler, and what the handler does when it resolves or rejects.         *)
(***************************************************************************)
Completed(p, ok) ==
    IF p.kind = "webhook"
    THEN Response("webhook", 200, "received",
                  [ sig |-> "valid", type |-> "checkout.session.completed",
                    dispatched |-> TRUE, ok |-> ok ])
    ELSE Response("checkout-success", 302,
                  IF ok THEN SuccessPage(p.type) ELSE "/my-account.html", RedirectReq(ok))

\* updateUserStripe writing has_book = NOT has_book instead of the constant.
updateStatementToggle(slot, dbOk) ==
    LET p    == procs[slot]
        next == NextStatement(UpdateKeys(p.customer, p.type), PositionOf(p.pc) + 1)
        row  == getUserById(users, p.userId)
        v    == IF p.pc = "has_book" /\ row # {}
                THEN ~(CHOOSE r \in row : TRUE).has_book
                ELSE UpdateValue(p.customer, p.pc)
    IN  /\ p.kind # "idle"
        /\ UNCHANGED <<serial, now, tokens, env, features, settings>>
        /\ IF ~dbOk
           THEN /\ users' = users
                /\ procs' = [procs EXCEPT ![slot] = Idle]
                /\ resp'  = Completed(p, FALSE)
           ELSE /\ users' = UpdateById(users, p.userId, p.pc, v)
                /\ IF next = "respond"
                   THEN /\ procs' = [procs EXCEPT ![slot] = Idle]
                        /\ resp'  = Completed(p, TRUE)
                   ELSE /\ procs' = [procs EXCEPT ![slot].pc = next]
                        /\ UNCHANGED resp

updateStatement(slot, dbOk) ==
    LET p    == procs[slot]
        next == NextStatement(UpdateKeys(p.customer, p.type), PositionOf(p.pc) + 1)
    IN  /\ p.kind # "idle"
        /\ UNCHANGED <<serial, now, tokens, env, features, settings>>
        /\ IF ~dbOk
           THEN /\ users' = users
                /\ procs' = [procs EXCEPT ![slot] = Idle]
                /\ resp'  = Completed(p, FALSE)
           ELSE /\ users' = UpdateById(users, p.userId, p.pc, UpdateValue(p.customer, p.pc))
                /\ IF next = "respond"
                   THEN /\ procs' = [procs EXCEPT ![slot] = Idle]
                        /\ resp'  = Completed(p, TRUE)
                   ELSE /\ procs' = [procs EXCEPT ![slot].pc = next]
                        /\ UNCHANGED resp

(***************************************************************************)
(* src/routes/auth.js                                                      *)
(***************************************************************************)
\* email.split('@')[0]
LocalPart(email) ==
    CASE email = "u@x.com"     -> "u"
      [] email = "admin@x.com" -> "admin"
      [] email = "Admin@X.com" -> "Admin"
      [] OTHER                 -> email

\* bcrypt.hash(password, 12) and bcrypt.compare(password, hash)
Hash(password) == <<"bcrypt", 12, password>>
Compare(password, hash) == hash = Hash(password)
NoHash == <<>>

\* upsertUser without its ON CONFLICT clause acting: a second row is inserted.
upsertUserInsertOnly(tbl, id, email, name, picture, provider, provider_id) ==
    tbl \cup { NewRow(id, email, name, picture, provider, provider_id, NoHash) }

\* upsertUser refreshing the sign-in method as well as the profile.
upsertUserAllColumns(tbl, id, email, name, picture, provider, provider_id) ==
    IF RowsByEmail(tbl, email) = {}
    THEN tbl \cup { NewRow(id, email, name, picture, provider, provider_id, NoHash) }
    ELSE { IF r.email = email
           THEN [r EXCEPT !.name = name, !.picture = picture, !.last_login = now,
                          !.provider = provider, !.provider_id = provider_id]
           ELSE r : r \in tbl }

\* INSERT INTO users ... ON CONFLICT (email) DO UPDATE SET name, picture, last_login
upsertUser(tbl, id, email, name, picture, provider, provider_id) ==
    IF RowsByEmail(tbl, email) = {}
    THEN tbl \cup { NewRow(id, email, name, picture, provider, provider_id, NoHash) }
    ELSE { IF r.email = email
           THEN [r EXCEPT !.name = name, !.picture = picture, !.last_login = now]
           ELSE r : r \in tbl }

\* INSERT INTO users (email, name, provider, provider_id, password_hash)
createEmailUser(tbl, id, email, name, password_hash) ==
    tbl \cup { NewRow(id, email, name, Null, "email", email, password_hash) }

\* UPDATE users SET is_admin = TRUE WHERE email = ${email}
setAdminByEmail(tbl, email) ==
    { IF r.email = email THEN [r EXCEPT !.is_admin = TRUE] ELSE r : r \in tbl }

\* maybeGrantAdmin comparing the addresses as they are written.
GrantsAdminCaseSensitive(user) ==
    /\ env.ADMIN_EMAIL # Null
    /\ user.email = env.ADMIN_EMAIL
    /\ ~user.is_admin

\* The condition under which maybeGrantAdmin promotes the user.
GrantsAdmin(user) ==
    /\ env.ADMIN_EMAIL # Null
    /\ ToLowerCase(user.email) = ToLowerCase(env.ADMIN_EMAIL)
    /\ ~user.is_admin

\* signJWT(user): the claims of the token
signJWT(user, is_admin) == Claims(user.id, user.email, is_admin)

\* maybeGrantAdmin, signJWT, setAuthCookie and the response, after the store
\* call of the route left the table tbl and returned user. A rejected
\* setAdminByEmail is answered errStatus by the route's catch.
FinishLogin(route, okStatus, errStatus, tbl, user, fail, credential, password) ==
    IF GrantsAdmin(user) /\ fail = "grant"
    THEN /\ users' = tbl
         /\ resp'  = Response(route, errStatus, "failed",
                              AuthReq(credential, user.email, password, FALSE))
         /\ UNCHANGED tokens
    ELSE LET is_admin == user.is_admin \/ GrantsAdmin(user)
             token    == signJWT(user, is_admin)
         IN  /\ users'  = IF GrantsAdmin(user) THEN setAdminByEmail(tbl, user.email) ELSE tbl
             /\ tokens' = tokens \cup {token}
             /\ resp'   = SessionResponse(route, okStatus,
                                          AuthReq(credential, user.email, password, TRUE), token)

Reject(route, status, body, req) ==
    /\ resp' = Response(route, status, body, req)
    /\ UNCHANGED <<users, serial, tokens>>

\* POST /api/auth/google. credential: Null (missing), "invalid" (verifyIdToken
\* throws) or "valid"; payload: ticket.getPayload()
google(credential, payload, fail) ==
    /\ UNCHANGED <<now, procs, env, features, settings>>
    /\ IF credential = Null
       THEN Reject("google", 400, "Missing credential", AuthReq(Null, Null, Null, TRUE))
       ELSE IF credential # "valid"
       THEN Reject("google", 401, "Google authentication failed",
                   AuthReq(credential, Null, Null, TRUE))
       ELSE IF fail = "upsert"
       THEN Reject("google", 401, "Google authentication failed",
                   AuthReq(credential, payload.email, Null, FALSE))
       ELSE /\ serial < MaxSerial
            /\ serial' = serial + 1
            /\ LET tbl  == upsertUser(users, serial + 1, payload.email, payload.name,
                                      payload.picture, "google", payload.sub)
                   user == CHOOSE r \in tbl : r.email = payload.email
               IN  FinishLogin("google", 200, 401, tbl, user, fail, credential, Null)

\* POST /api/auth/apple. id_token: Null (missing), "garbage" (jwt.decode
\* gives null), "signed" (a token Apple signed for this client) or "forged"
\* (a well-formed token nobody at Apple signed): jwt.decode reads both;
\* decoded: its payload; appleUser: the user object of the body
apple(id_token, decoded, appleUser, fail) ==
    LET email == IF decoded.email # Null THEN decoded.email ELSE appleUser.email
        name  == IF appleUser.name # Null THEN appleUser.name ELSE LocalPart(email)
    IN  /\ UNCHANGED <<now, procs, env, features, settings>>
        /\ IF id_token = Null
           THEN Reject("apple", 400, "Missing id_token", AuthReq(Null, Null, Null, TRUE))
           ELSE IF id_token = "garbage" \/ decoded.sub = Null
           THEN Reject("apple", 401, "Invalid Apple token",
                       AuthReq(id_token, Null, Null, TRUE))
           ELSE IF email = Null
           THEN Reject("apple", 400, "Email not provided by Apple",
                       AuthReq(id_token, Null, Null, TRUE))
           ELSE IF fail = "upsert"
           THEN Reject("apple", 401, "Apple authentication failed",
                       AuthReq(id_token, email, Null, FALSE))
           ELSE /\ serial < MaxSerial
                /\ serial' = serial + 1
                /\ LET tbl  == upsertUser(users, serial + 1, email, name, Null,
                                          "apple", decoded.sub)
                       user == CHOOSE r \in tbl : r.email = email
                   IN  FinishLogin("apple", 200, 401, tbl, user, fail, id_token, Null)

MinPasswordLength == 8

\* POST /email/signup that inserts without looking the email up first: the
\* UNIQUE constraint rejects the second row and the catch answers 500.
emailSignupNoLookup(email, password, name, fail) ==
    /\ UNCHANGED <<now, procs, env, features, settings>>
    /\ IF email = Null \/ password = Null
       THEN Reject("signup", 400, "Email and password are required",
                   AuthReq(Null, email, password, TRUE))
       ELSE IF Len(password) < MinPasswordLength
       THEN Reject("signup", 400, "Password must be at least 8 characters",
                   AuthReq(Null, email, password, TRUE))
       ELSE IF getUserByEmail(users, email) # {}
       THEN Reject("signup", 500, "Sign-up failed", AuthReq(Null, email, password, TRUE))
       ELSE IF fail \in {"lookup", "insert"}
       THEN Reject("signup", 500, "Sign-up failed", AuthReq(Null, email, password, FALSE))
       ELSE /\ serial < MaxSerial
            /\ serial' = serial + 1
            /\ LET tbl  == createEmailUser(users, serial + 1, email,
                               IF name # Null THEN name ELSE LocalPart(email),
                               Hash(password))
                   user == CHOOSE r \in tbl : r.email = email
               IN  FinishLogin("signup", 201, 500, tbl, user, fail, Null, password)

\* POST /email/signup looking the email up before it checks the length.
emailSignupLookupFirst(email, password, name, fail) ==
    /\ UNCHANGED <<now, procs, env, features, settings>>
    /\ IF email = Null \/ password = Null
       THEN Reject("signup", 400, "Email and password are required",
                   AuthReq(Null, email, password, TRUE))
       ELSE IF fail = "lookup"
       THEN Reject("signup", 500, "Sign-up failed", AuthReq(Null, email, password, FALSE))
       ELSE IF getUserByEmail(users, email) # {}
       THEN Reject("signup", 409, "An account with that email already exists",
                   AuthReq(Null, email, password, TRUE))
       ELSE IF Len(password) < MinPasswordLength
       THEN Reject("signup", 400, "Password must be at least 8 characters",
                   AuthReq(Null, email, password, TRUE))
       ELSE IF fail = "insert"
       THEN Reject("signup", 500, "Sign-up failed", AuthReq(Null, email, password, FALSE))
       ELSE /\ serial < MaxSerial
            /\ serial' = serial + 1
            /\ LET tbl  == createEmailUser(users, serial + 1, email,
                               IF name # Null THEN name ELSE LocalPart(email),
                               Hash(password))
                   user == CHOOSE r \in tbl : r.email = email
               IN  FinishLogin("signup", 201, 500, tbl, user, fail, Null, password)

\* POST /email/signin telling an account without password apart.
emailSigninTelling(email, password, fail) ==
    /\ UNCHANGED <<now, procs, env, features, settings, serial>>
    /\ IF email = Null \/ password = Null
       THEN Reject("signin", 400, "Email and password are required",
                   AuthReq(Null, email, password, TRUE))
       ELSE IF fail = "lookup"
       THEN Reject("signin", 500, "Sign-in failed", AuthReq(Null, email, password, FALSE))
       ELSE LET found == getUserByEmail(users, email)
            IN  IF found = {}
                THEN Reject("signin", 401, "Invalid email or password",
                            AuthReq(Null, email, password, TRUE))
                ELSE IF \E r \in found : r.password_hash = NoHash
                THEN Reject("signin", 401, "Use your sign-in provider",
                            AuthReq(Null, email, password, TRUE))
                ELSE LET user == CHOOSE r \in found : TRUE
                     IN  IF ~Compare(password, user.password_hash)
                         THEN Reject("signin", 401, "Invalid email or password",
                                     AuthReq(Null, email, password, TRUE))
                         ELSE FinishLogin("signin", 200, 500, users, user, fail, Null, password)

\* POST /api/auth/email/signup
emailSignup(email, password, name, fail) ==
    /\ UNCHANGED <<now, procs, env, features, settings>>
    /\ IF email = Null \/ password = Null
       THEN Reject("signup", 400, "Email and password are required",
                   AuthReq(Null, email, password, TRUE))
       ELSE IF Len(password) < MinPasswordLength
       THEN Reject("signup", 400, "Password must be at least 8 characters",
                   AuthReq(Null, email, password, TRUE))
       ELSE IF fail = "lookup"
       THEN Reject("signup", 500, "Sign-up failed", AuthReq(Null, email, password, FALSE))
       ELSE IF getUserByEmail(users, email) # {}
       THEN Reject("signup", 409, "An account with that email already exists",
                   AuthReq(Null, email, password, TRUE))
       ELSE IF fail = "insert"
       THEN Reject("signup", 500, "Sign-up failed", AuthReq(Null, email, password, FALSE))
       ELSE /\ serial < MaxSerial
            /\ serial' = serial + 1
            /\ LET tbl  == createEmailUser(users, serial + 1, email,
                               IF name # Null THEN name ELSE LocalPart(email),
                               Hash(password))
                   user == CHOOSE r \in tbl : r.email = email
               IN  FinishLogin("signup", 201, 500, tbl, user, fail, Null, password)

\* POST /api/auth/email/signin
emailSignin(email, password, fail) ==
    /\ UNCHANGED <<now, procs, env, features, settings, serial>>
    /\ IF email = Null \/ password = Null
       THEN Reject("signin", 400, "Email and password are required",
                   AuthReq(Null, email, password, TRUE))
       ELSE IF fail = "lookup"
       THEN Reject("signin", 500, "Sign-in failed", AuthReq(Null, email, password, FALSE))
       ELSE LET found == getUserByEmail(users, email)
            IN  IF found = {} \/ (\E r \in found : r.password_hash = NoHash)
                THEN Reject("signin", 401, "Invalid email or password",
                            AuthReq(Null, email, password, TRUE))
                ELSE LET user == CHOOSE r \in found : TRUE
                     IN  IF ~Compare(password, user.password_hash)
                         THEN Reject("signin", 401, "Invalid email or password",
                                     AuthReq(Null, email, password, TRUE))
                         ELSE FinishLogin("signin", 200, 500, users, user, fail, Null, password)

(***************************************************************************)
(* src/routes/admin.js and GET /api/track/stats                            *)
(***************************************************************************)
\* What getTokenFromRequest and jwt.verify make of a request: no token, a
\* token jwt.verify rejects ("malformed", "expired"), or a token it accepts.
Cred(kind, claims) == [ kind |-> kind, claims |-> claims ]

NoCred == Cred("none", NoClaims)

\* jwt.verify accepts only what signJWT signed and has not yet expired.
Creds ==
    {NoCred}
    \cup { Cred(k, t) : k \in {"valid", "expired"}, t \in tokens }
    \cup { Cred("malformed", Claims(1, "u@x.com", TRUE)) }

Next0     == 0      \* the gate called next()
Status401 == 401
Status403 == 403

\* requireAdmin deciding on the token's claim alone.
requireAdminClaimOnly(cred, lookupOk) ==
    IF cred.kind = "none" THEN Status401
    ELSE IF cred.kind # "valid" THEN Status401
    ELSE IF cred.claims.is_admin THEN Next0
    ELSE Status403

\* requireAdmin reading the claims with jwt.decode: expiry is not checked.
requireAdminNoExpiry(cred, lookupOk) ==
    IF cred.kind = "none" THEN Status401
    ELSE IF cred.kind = "malformed" THEN Status401
    ELSE IF cred.claims.is_admin THEN Next0
    ELSE IF ~lookupOk THEN Status401
    ELSE IF \E r \in getUserById(users, cred.claims.id) : r.is_admin THEN Next0
    ELSE Status403

\* requireAdmin(req, res, next); lookupOk: getUserById resolves
requireAdmin(cred, lookupOk) ==
    IF cred.kind = "none" THEN Status401
    ELSE IF cred.kind # "valid" THEN Status401
    ELSE IF cred.claims.is_admin THEN Next0
    ELSE IF ~lookupOk THEN Status401
    ELSE IF \E r \in getUserById(users, cred.claims.id) : r.is_admin THEN Next0
    ELSE Status403

AdminReq(cred, lookupOk) == [ kind |-> cred.kind, claims |-> cred.claims, lookupOk |-> lookupOk ]

Denied(route, status, cred, lookupOk) ==
    /\ resp' = Response(route, status,
                        IF status = Status403 THEN "Admin access required"
                        ELSE "Not authenticated", AdminReq(cred, lookupOk))
    /\ UNCHANGED <<users, features, settings>>

\* The body of PATCH /api/admin/users/:id: the fields it carries and their values
PatchFields == <<"subscription_status", "is_admin", "has_book">>

PatchBodies ==
    { b \in [ present             : SUBSET {"subscription_status", "is_admin", "has_book"},
              subscription_status : {"free", "premium", "gold"},
              is_admin            : BOOLEAN,
              has_book            : BOOLEAN ] :
        /\ ("subscription_status" \notin b.present => b.subscription_status = "free")
        /\ ("is_admin" \notin b.present => b.is_admin = FALSE)
        /\ ("has_book" \notin b.present => b.has_book = FALSE) }

\* updateUser(id, body): one UPDATE per field the body carries, in the order
\* of PatchFields; the statements before the failAt-th one take effect.
RECURSIVE updateUser(_, _, _, _, _)
updateUser(tbl, id, body, i, failAt) ==
    IF i > Len(PatchFields) THEN tbl
    ELSE IF PatchFields[i] \notin body.present THEN updateUser(tbl, id, body, i + 1, failAt)
    ELSE IF failAt = i THEN tbl
    ELSE updateUser(UpdateById(tbl, id, PatchFields[i], body[PatchFields[i]]),
                    id, body, i + 1, failAt)

\* PATCH /api/admin/users/:id passing every subscription_status on to updateUser.
adminPatchUserUnchecked(cred, lookupOk, idParam, body, failAt) ==
    LET gate == requireAdmin(cred, lookupOk)
        id   == ParseInt(idParam)
        req  == AdminReq(cred, lookupOk)
    IN  /\ UNCHANGED <<serial, now, tokens, procs, env>>
        /\ IF gate # Next0
           THEN Denied("admin/users/:id", gate, cred, lookupOk)
           ELSE /\ UNCHANGED <<features, settings>>
                /\ users' = IF id = NaN THEN users
                            ELSE updateUser(users, id, body, 1, failAt)
                /\ resp' =
                     IF body.present # {} /\ (id = NaN \/ (failAt # 0 /\ PatchFields[failAt] \in body.present))
                     THEN Response("admin/users/:id", 500, "Failed to update user", req)
                     ELSE IF body.present = {} \/ RowsById(users, id) = {}
                     THEN Response("admin/users/:id", 404, "User not found", req)
                     ELSE Response("admin/users/:id", 200, "ok", req)

\* PATCH /api/admin/users/:id. failAt: the statement that rejects, 0 for none
adminPatchUser(cred, lookupOk, idParam, body, failAt) ==
    LET gate == requireAdmin(cred, lookupOk)
        id   == ParseInt(idParam)
        req  == AdminReq(cred, lookupOk)
    IN  /\ UNCHANGED <<serial, now, tokens, procs, env>>
        /\ IF gate # Next0
           THEN Denied("admin/users/:id", gate, cred, lookupOk)
           ELSE /\ UNCHANGED <<features, settings>>
                /\ IF "subscription_status" \in body.present
                      /\ body.subscription_status \notin {"free", "premium"}
                   THEN /\ resp' = Response("admin/users/:id", 400,
                                            "subscription_status must be free or premium", req)
                        /\ UNCHANGED users
                   ELSE /\ users' = IF id = NaN THEN users
                                    ELSE updateUser(users, id, body, 1, failAt)
                        /\ resp' =
                             IF body.present # {} /\ (id = NaN \/ (failAt # 0 /\ PatchFields[failAt] \in body.present))
                             THEN Response("admin/users/:id", 500, "Failed to update user", req)
                             ELSE IF body.present = {} \/ RowsById(users, id) = {}
                             THEN Response("admin/users/:id", 404, "User not found", req)
                             ELSE Response("admin/users/:id", 200, "ok", req)

\* PATCH /api/admin/features/:key. enabled: the body's value, isBoolean: its typeof
adminPatchFeature(cred, lookupOk, key, isBoolean, enabled, dbOk) ==
    LET gate == requireAdmin(cred, lookupOk)
        req  == AdminReq(cred, lookupOk)
    IN  /\ UNCHANGED <<serial, now, tokens, procs, env>>
        /\ IF gate # Next0
           THEN Denied("admin/features/:key", gate, cred, lookupOk)
           ELSE /\ UNCHANGED <<users, settings>>
                /\ IF ~isBoolean
                   THEN /\ resp' = Response("admin/features/:key", 400,
                                            "enabled must be a boolean", req)
                        /\ UNCHANGED features
                   ELSE IF ~dbOk
                   THEN /\ resp' = Response("admin/features/:key", 500,
                                            "Failed to update feature", req)
                        /\ UNCHANGED features
                   ELSE IF key \notin DOMAIN features
                   THEN /\ resp' = Response("admin/features/:key", 404, "Feature not found", req)
                        /\ UNCHANGED features
                   ELSE /\ features' = [features EXCEPT ![key] = enabled]
                        /\ resp' = Response("admin/features/:key", 200, "ok", req)

\* String(!!v)
StringOfBoolean(b) == IF b THEN "true" ELSE "false"

\* INSERT INTO settings ... ON CONFLICT (key) DO UPDATE SET value
setSetting(tbl, key, value) == [ k \in DOMAIN tbl \cup {key} |-> IF k = key THEN value ELSE tbl[k] ]

\* POST /api/admin/settings. hasEnabled / hasMessage: the body carries the
\* field; truthy: !!sitelock_enabled; failAt: the setSetting call that rejects
adminPostSettings(cred, lookupOk, hasEnabled, truthy, hasMessage, message, failAt) ==
    LET gate == requireAdmin(cred, lookupOk)
        req  == AdminReq(cred, lookupOk)
        s1   == IF hasEnabled /\ failAt # 1
                THEN setSetting(settings, "sitelock_enabled", StringOfBoolean(truthy))
                ELSE settings
        s2   == IF hasMessage /\ failAt # 2 /\ ~(hasEnabled /\ failAt = 1)
                THEN setSetting(s1, "sitelock_message", message)
                ELSE s1
    IN  /\ UNCHANGED <<serial, now, tokens, procs, env>>
        /\ IF gate # Next0
           THEN Denied("admin/settings", gate, cred, lookupOk)
           ELSE /\ UNCHANGED <<users, features>>
                /\ settings' = s2
                /\ resp' = IF (hasEnabled /\ failAt = 1) \/ (hasMessage /\ failAt = 2)
                           THEN Response("admin/settings", 500, "Failed to save settings", req)
                           ELSE Response("admin/settings", 200, "ok", req)

\* GET /api/admin/users, /features, /settings: the guarded handler only reads.
adminGet(cred, lookupOk, route, dbOk) ==
    LET gate == requireAdmin(cred, lookupOk)
    IN  /\ UNCHANGED <<serial, now, tokens, procs, env>>
        /\ IF gate # Next0
           THEN Denied(route, gate, cred, lookupOk)
           ELSE /\ UNCHANGED <<users, features, settings>>
                /\ resp' = Response(route, IF dbOk THEN 200 ELSE 500,
                                    IF dbOk THEN "ok" ELSE "Failed to fetch",
                                    AdminReq(cred, lookupOk))

\* GET /api/track/stats: the same gate inline, with a catch that answers 500.
trackStats(cred, lookupOk, dbOk) ==
    LET req == AdminReq(cred, lookupOk)
        isAdmin == \/ cred.claims.is_admin
                   \/ \E r \in getUserById(users, cred.claims.id) : r.is_admin
    IN  /\ UNCHANGED <<users, serial, now, tokens, procs, env, features, settings>>
        /\ resp' =
             IF cred.kind = "none" THEN Response("track/stats", 401, "Unauthorized", req)
             ELSE IF cred.kind # "valid" THEN Response("track/stats", 500, "jwt error", req)
             ELSE IF ~cred.claims.is_admin /\ ~lookupOk
             THEN Response("track/stats", 500, "store error", req)
             ELSE IF ~isAdmin THEN Response("track/stats", 403, "Admin required", req)
             ELSE IF ~dbOk THEN Response("track/stats", 500, "store error", req)
             ELSE Response("track/stats", 200, "stats", req)

\* GET /api/auth/me answering from the token: the claims as they were signed.
authMeClaims(cred, lookupOk) ==
    LET req == AdminReq(cred, lookupOk)
    IN  /\ UNCHANGED <<users, serial, now, tokens, procs, env, features, settings>>
        /\ resp' =
             IF cred.kind = "none" THEN Response("auth/me", 401, "Not authenticated", req)
             ELSE IF cred.kind # "valid" \/ ~lookupOk
             THEN Response("auth/me", 401, "Invalid or expired session", req)
             ELSE Response("auth/me", 200, cred.claims, req)

\* GET /api/auth/me: every throw inside the handler, a rejected getUserById
\* included, is answered 401 by its catch; the body of a 200 is the row
\* getUserById returned.
authMe(cred, lookupOk) ==
    LET req == AdminReq(cred, lookupOk)
        row == getUserById(users, cred.claims.id)
    IN  /\ UNCHANGED <<users, serial, now, tokens, procs, env, features, settings>>
        /\ resp' =
             IF cred.kind = "none" THEN Response("auth/me", 401, "Not authenticated", req)
             ELSE IF cred.kind # "valid" \/ ~lookupOk
             THEN Response("auth/me", 401, "Invalid or expired session", req)
             ELSE IF row = {}
             THEN Response("auth/me", 404, "User not found", req)
             ELSE Response("auth/me", 200, CHOOSE r \in row : TRUE, req)

\* The values of body.type that POST /create-checkout accepts.
CheckoutTypes == {"book", "premium_monthly", "premium_lifetime"}

\* sessionParams before the customer is chosen: mode and metadata by type,
\* customer_email: user.email
SessionParams(user, type) ==
    [ mode           |-> IF type = "premium_monthly" THEN "subscription" ELSE "payment",
      user_id        |-> user.id,
      type           |-> IF type = "book" THEN "book" ELSE "premium",
      customer       |-> Null,
      customer_email |-> user.email ]

\* The handler creating a new Stripe customer for every checkout.
WithNewCustomer(params, user) == params

\* if (user.stripe_customer_id) { customer = it; delete customer_email }
WithCustomer(params, user) ==
    IF user.stripe_customer_id # Null
    THEN [params EXCEPT !.customer = user.stripe_customer_id, !.customer_email = Null]
    ELSE params

\* POST /api/stripe/create-checkout. priceSet: the STRIPE_PRICE_* variable of
\* the type is set; createOk: stripe.checkout.sessions.create resolves. The
\* body of a 200 stands for the session Stripe created: the sessionParams the
\* handler passed to sessions.create.
createCheckout(cred, lookupOk, type, priceSet, createOk) ==
    LET req == AdminReq(cred, lookupOk)
        row == getUserById(users, cred.claims.id)
    IN  /\ UNCHANGED <<users, serial, now, tokens, procs, env, features, settings>>
        /\ resp' =
             IF cred.kind = "none"
             THEN Response("stripe/create-checkout", 401, "Please sign in before purchasing.", req)
             ELSE IF cred.kind # "valid"
             THEN Response("stripe/create-checkout", 401, "Session expired", req)
             ELSE IF ~lookupOk
             THEN Response("stripe/create-checkout", 500, "Failed to create checkout session", req)
             ELSE IF row = {}
             THEN Response("stripe/create-checkout", 404, "User not found", req)
             ELSE IF ~env.STRIPE_SECRET_KEY
             THEN Response("stripe/create-checkout", 500, "Failed to create checkout session", req)
             ELSE IF type \in CheckoutTypes /\ ~priceSet
             THEN Response("stripe/create-checkout", 500, "price not configured", req)
             ELSE IF type \notin CheckoutTypes
             THEN Response("stripe/create-checkout", 400, "Invalid type", req)
             ELSE IF ~createOk
             THEN Response("stripe/create-checkout", 500, "Failed to create checkout session", req)
             ELSE LET user == CHOOSE r \in row : TRUE
                  IN  Response("stripe/create-checkout", 200,
                               WithCustomer(SessionParams(user, type), user), req)

(***************************************************************************)
(* Initial states                                                          *)
(***************************************************************************)
Env(webhookSecret, secretKey, adminEmail) ==
    [ STRIPE_WEBHOOK_SECRET |-> webhookSecret,   \* set or not
      STRIPE_SECRET_KEY     |-> secretKey,       \* set or not
      ADMIN_EMAIL           |-> adminEmail ]

\* initDB's seed rows: two of the nine features, and the settings
SeedFeatures == [ k \in {"health-score", "community"} |-> TRUE ]
SeedSettings == [ sitelock_enabled |-> "false", sitelock_message |-> "unavailable" ]

NoHistory == [ users |-> {}, session |-> NoSession, webhooks |-> 0, redirects |-> 0 ]

NoResponse == Response("none", 0, "none", NoRequest)

\* The promises ensureDB can create in one process, by order of creation.
Promises == 1..MaxCount

\* A request on its way through the middleware of server.js: where it is and
\* the promise ensureDB returned to it (0: Promise.resolve()).
Request(state, awaits) == [ state |-> state, awaits |-> awaits ]

\* The module scope of server.js when the process has loaded it. runs: how
\* far the async function behind each promise has come.
Loaded(url) ==
    [ DATABASE_URL  |-> url,
      dbInitialized |-> FALSE,
      dbInitPromise |-> 0,
      runs          |-> [ p \in Promises |-> "none" ],
      initDBCalls   |-> 0,
      tracking      |-> "none",
      reqs          |-> [ s \in Slots |-> Request("idle", 0) ] ]

\* A sign-up handler's locals across its awaits.
Signup(state, email, password) == [ state |-> state, email |-> email, password |-> password ]

NoSignups == [ s \in Slots |-> Signup("idle", Null, Null) ]

\* A page before the site-lock script has run.
NoPage == [ script |-> Null, overlay |-> "none", banner |-> FALSE, fetch |-> "none",
            data |-> [ sitelock_enabled |-> FALSE, unlocked |-> FALSE ],
            served |-> [ dbOk |-> TRUE, cookie |-> FALSE ], stored |-> Null ]

\* The state after initDB on an empty database.
InitCommon ==
    /\ tokens = {}
    /\ procs = [ i \in Slots |-> Idle ]
    /\ resp = NoResponse
    /\ features = SeedFeatures
    /\ settings = SeedSettings

\* Rows a database that has been in use can hold when the process starts:
\* a row as createEmailUser or upsertUser inserts it, then any of the UPDATE
\* statements of updateUser, updateUserStripe and setAdminByEmail.
Entitlements ==
    << [ subscription_status |-> "free", has_book |-> FALSE,
         stripe_customer_id |-> Null, is_admin |-> FALSE ],
       [ subscription_status |-> "premium", has_book |-> TRUE,
         stripe_customer_id |-> "cus_1", is_admin |-> FALSE ] >>

Entitled(row, e) ==
    [row EXCEPT !.subscription_status = e.subscription_status,
                !.has_book = e.has_book,
                !.stripe_customer_id = e.stripe_customer_id,
                !.is_admin = e.is_admin]

EmailRow(id, email, password) ==
    [ id |-> id, email |-> email, name |-> LocalPart(email), picture |-> Null,
      provider |-> "email", provider_id |-> email, password_hash |-> Hash(password),
      subscription_status |-> "free", is_admin |-> FALSE, has_book |-> FALSE,
      stripe_customer_id |-> Null, last_login |-> 0 ]

GoogleRow(id, email, name, sub) ==
    [ id |-> id, email |-> email, name |-> name, picture |-> "pic.png",
      provider |-> "google", provider_id |-> sub, password_hash |-> NoHash,
      subscription_status |-> "free", is_admin |-> FALSE, has_book |-> FALSE,
      stripe_customer_id |-> Null, last_login |-> 0 ]

SeedTables ==
    { {},
      { Entitled(EmailRow(1, "u@x.com", "password123"), Entitlements[2]) },
      { Entitled(GoogleRow(1, "u@x.com", "Bob", "sub-1"), Entitlements[1]) } }

Init ==
    /\ InitCommon
    /\ users \in SeedTables
    /\ serial = Cardinality(users)
    /\ now \in 1..MaxClock
    /\ env \in { Env(TRUE, TRUE, a) : a \in {Null, "U@x.com"} }
    /\ hist = NoHistory
    /\ boot = Loaded(TRUE)
    /\ signups = NoSignups
    /\ page = NoPage

(***************************************************************************)
(* Sign-in and sign-up                                                     *)
(***************************************************************************)
GooglePayloads == [ email : Emails, name : {"Ann"}, picture : {"pic.png"}, sub : {"sub-1"} ]
AppleTokens    == { [ sub |-> Null, email |-> "u@x.com" ], [ sub |-> "sub-2", email |-> Null ],
                    [ sub |-> "sub-2", email |-> "u@x.com" ],
                    [ sub |-> "sub-2", email |-> "Admin@X.com" ] }
AppleUsers     == { [ email |-> Null, name |-> Null ], [ email |-> "u@x.com", name |-> "Ann" ] }

\* The handlers read the payload and reach the store only with a credential
\* they accept, and a sign-up or sign-in only with an email and a password.
Google == \E c \in {Null, "invalid", "valid"}, p \in GooglePayloads, f \in {"none", "upsert", "grant"} :
              /\ c # "valid" => (p.email = "u@x.com" /\ f = "none")
              /\ google(c, p, f) /\ UNCHANGED <<hist, boot, signups, page>>

Apple == \E t \in {Null, "garbage", "forged", "signed"}, d \in AppleTokens, u \in AppleUsers,
            f \in {"none", "upsert", "grant"} :
              /\ t \in {Null, "garbage"}
                 => (d.sub = Null /\ u.email = Null /\ f = "none")
              /\ apple(t, d, u, f) /\ UNCHANGED <<hist, boot, signups, page>>

EmailSignup == \E e \in {Null} \cup Emails, pw \in {Null} \cup Passwords, n \in {Null},
                  f \in {"none", "lookup", "insert", "grant"} :
              /\ (e = Null \/ pw # "password123") => f = "none"
              /\ emailSignup(e, pw, n, f) /\ UNCHANGED <<hist, boot, signups, page>>

EmailSignin == \E e \in {Null} \cup Emails, pw \in {Null} \cup Passwords,
                  f \in {"none", "lookup", "grant"} :
              /\ (e = Null \/ pw = Null) => f = "none"
              /\ emailSignin(e, pw, f) /\ UNCHANGED <<hist, boot, signups, page>>

Next == Google \/ Apple \/ EmailSignup \/ EmailSignin

Spec == Init /\ [][Next]_vars

(***************************************************************************)
(* Properties of sign-in and sign-up (specification Spec)                  *)
(***************************************************************************)
\* A step in which POST /auth/google or POST /auth/apple ran its upsert: the
\* SERIAL sequence moved and the response is the route's.
ExternalAuthStep == serial' # serial /\ resp'.route \in {"google", "apple"}

\* C8: the users table never holds two rows with one email, and a successful
\* Google or Apple sign-in for an email that already has a row returns that
\* row's id, whichever provider created the row; a sign-in that creates the
\* row returns the id of the row it created.
C8_OneRowPerEmail ==
    /\ [](\A r1, r2 \in users : r1.email = r2.email => r1 = r2)
    /\ [](\A r1, r2 \in users : r1.id = r2.id => r1 = r2)
    /\ [][(ExternalAuthStep /\ resp'.status = 200) =>
            /\ \E r \in users' : r.email = resp'.token.email /\ r.id = resp'.token.id
            /\ \A r \in users : r.email = resp'.token.email => r.id = resp'.token.id
            /\ (RowsByEmail(users, resp'.token.email) # {} =>
                   Cardinality(users') = Cardinality(users))]_vars

\* C8 witness: Apple sign-in answered with the id of a row Google or email
\* sign-up created earlier, after the sequence has moved past that id.
C8_Witness ==
    /\ resp.route = "apple" /\ resp.status = 200
    /\ \E r \in users : /\ r.email = resp.token.email /\ r.id = resp.token.id
                        /\ r.provider \in {"google", "email"}
                        /\ serial > r.id
    /\ Cardinality(users) = 2

FrameFields ==
    {"id", "email", "subscription_status", "has_book", "stripe_customer_id",
     "provider", "provider_id", "password_hash"}

\* C9: a Google or Apple sign-in whose upsert ran leaves, in every row that
\* existed, id, email, subscription_status, has_book, stripe_customer_id,
\* provider, provider_id and password_hash as they were, and changes at
\* most one row that existed.
C9_UpsertFrame ==
    [][ExternalAuthStep =>
          /\ \A r \in users : \E q \in users' :
                 /\ q.id = r.id
                 /\ \A f \in FrameFields : q[f] = r[f]
          /\ Cardinality({ r \in users : r \notin users' }) <= 1]_vars

\* C9 witness: Google sign-in into a row that email sign-up created and a
\* payment upgraded; name, picture and last_login are the new ones.
C9_Witness ==
    /\ resp.route = "google" /\ resp.status = 200
    /\ \E r \in users : /\ r.email = resp.token.email
                        /\ r.provider = "email" /\ r.password_hash # NoHash
                        /\ r.subscription_status = "premium" /\ r.has_book
                        /\ r.stripe_customer_id = "cus_1"
                        /\ r.name = "Ann" /\ r.picture = "pic.png" /\ r.last_login = now

IsAdminEmail(email) ==
    env.ADMIN_EMAIL # Null /\ ToLowerCase(email) = ToLowerCase(env.ADMIN_EMAIL)

\* C10: every session token signed for an address that equals ADMIN_EMAIL up
\* to case carries is_admin = true, and the store's row of that user has
\* is_admin = true once the token exists; this holds for the token of each
\* of the four routes' responses.
C10_BootstrapAdmin ==
    /\ \A t \in tokens : IsAdminEmail(t.email) =>
          /\ t.is_admin
          /\ \E r \in users : r.id = t.id /\ r.email = t.email /\ r.is_admin
    /\ (resp.token # NoClaims => resp.token \in tokens)

\* C10 witness: email sign-in of a row that was not admin, under an
\* ADMIN_EMAIL written in another case, answered with an admin token.
C10_Witness ==
    /\ resp.route = "signin" /\ resp.status = 200
    /\ resp.token.is_admin
    /\ resp.token.email # env.ADMIN_EMAIL
    /\ \E r \in users : r.id = resp.token.id /\ r.is_admin

\* A step that answered an email request carrying both fields.
EmailStep(route) ==
    /\ resp'.route = route
    /\ resp'.req.email # Null /\ resp'.req.password # Null

NoSessionNoChange ==
    /\ resp'.token = NoClaims
    /\ UNCHANGED <<users, tokens, serial>>

\* C11: email signup with a password of 8 or more characters for an email
\* that has a row, whichever provider created it, is answered 409 when the
\* lookup resolves; no token is issued, no row is created and the table is
\* as it was.
C11_SignupConflict ==
    [][( /\ EmailStep("signup")
         /\ Len(resp'.req.password) >= MinPasswordLength
         /\ RowsByEmail(users, resp'.req.email) # {}
         /\ resp'.req.ok )
       => /\ resp'.status = 409
          /\ NoSessionNoChange]_vars

\* C11 witness: signup answered 409 for an email whose row Apple sign-in
\* created.
C11_Witness ==
    /\ resp.route = "signup" /\ resp.status = 409
    /\ resp.req.password = "password123"
    /\ \E r \in users : r.email = resp.req.email /\ r.provider = "apple"

\* C12: email signup with a password shorter than 8 characters is answered
\* 400, whether the email has a row or not and whether the store answers or
\* not; no token is issued and users, tokens and the id sequence are as they
\* were.
C12_ShortPassword ==
    [][( /\ EmailStep("signup")
         /\ Len(resp'.req.password) < MinPasswordLength )
       => /\ resp'.status = 400
          /\ NoSessionNoChange]_vars

\* C12 witness: a 7-character password for a registered email, answered 400.
C12_Witness ==
    /\ resp.route = "signup" /\ resp.status = 400
    /\ resp.req.password = "1234567"
    /\ RowsByEmail(users, resp.req.email) # {}

\* The three ways the pair (email, password) is wrong.
NoSuchUser(email)       == RowsByEmail(users, email) = {}
NoPasswordHash(email)   == \E r \in RowsByEmail(users, email) : r.password_hash = NoHash
WrongPassword(email, password) ==
    \E r \in RowsByEmail(users, email) :
        r.password_hash # NoHash /\ ~Compare(password, r.password_hash)

\* C13: email signin with both fields, when the lookup resolves, is answered
\* 401 with the one body "Invalid email or password" in each of the three
\* cases (no row for the email, a row without password hash, a password that
\* does not match the hash); no token is issued and the store is unchanged.
C13_SigninUniform ==
    [][( /\ EmailStep("signin")
         /\ resp'.req.ok
         /\ \/ NoSuchUser(resp'.req.email)
            \/ NoPasswordHash(resp'.req.email)
            \/ WrongPassword(resp'.req.email, resp'.req.password) )
       => /\ resp'.status = 401
          /\ resp'.body = "Invalid email or password"
          /\ NoSessionNoChange]_vars

\* C13 witness: signin answered 401 for the email of an account that only
\* Google sign-in has used, while another account has a password.
C13_Witness ==
    /\ resp.route = "signin" /\ resp.status = 401
    /\ NoPasswordHash(resp.req.email)
    /\ \E r \in users : r.password_hash # NoHash

\* The assertion passed the provider's signature and audience check.
Verified(credential) == credential \in {"valid", "signed"}

\* C14: on POST /google and POST /apple an assertion that is present and
\* does not pass the provider's signature and audience verification issues
\* no session token and creates or updates no user row.
C14_VerifiedOnly ==
    [][( /\ resp'.route \in {"google", "apple"}
         /\ resp'.req.credential # Null
         /\ ~Verified(resp'.req.credential) )
       => /\ resp'.token = NoClaims
          /\ UNCHANGED <<users, tokens>>]_vars

(***************************************************************************)
(* The admin console: two users, one of them admin, each holding a token   *)
(* signed when the store was in this state (specification SpecAdmin)       *)
(***************************************************************************)
AdminSeed ==
    { EmailRow(1, "u@x.com", "password123"),
      [EmailRow(2, "Admin@X.com", "password123") EXCEPT !.is_admin = TRUE] }

InitAdmin ==
    /\ users = AdminSeed
    /\ serial = 2
    /\ now = 1
    /\ tokens = { signJWT(r, r.is_admin) : r \in AdminSeed }
    /\ procs = [ i \in Slots |-> Idle ]
    /\ resp = NoResponse
    /\ features = SeedFeatures
    /\ settings = SeedSettings
    /\ env = Env(TRUE, TRUE, Null)
    /\ hist = NoHistory
    /\ boot = Loaded(TRUE)
    /\ signups = NoSignups
    /\ page = NoPage

AdminPatchBodies ==
    { b \in PatchBodies : Cardinality(b.present) <= 1 /\ "has_book" \notin b.present }

AdminPatchUser ==
    \E c \in Creds, ok \in BOOLEAN, id \in {<<1>>, <<2>>, <<NonDigit>>},
       b \in AdminPatchBodies, f \in 0..1 :
          adminPatchUser(c, ok, id, b, f) /\ UNCHANGED <<hist, boot, signups, page>>

AdminPatchFeature ==
    \E c \in Creds, ok \in BOOLEAN, k \in {"community", "no-such-key"},
       enabled \in {"true", "false", "yes"}, dbOk \in BOOLEAN :
          adminPatchFeature(c, ok, k, enabled # "yes", enabled = "true", dbOk) /\ UNCHANGED <<hist, boot, signups, page>>

AdminPostSettings ==
    \E c \in Creds, ok \in BOOLEAN, hasEnabled \in BOOLEAN, truthy \in BOOLEAN, f \in 0..1 :
          adminPostSettings(c, ok, hasEnabled, truthy, FALSE, Null, f) /\ UNCHANGED <<hist, boot, signups, page>>

AdminGet ==
    \E c \in Creds, ok \in BOOLEAN, r \in {"admin/users", "admin/features"},
       dbOk \in BOOLEAN :
          adminGet(c, ok, r, dbOk) /\ UNCHANGED <<hist, boot, signups, page>>

TrackStats ==
    \E c \in Creds, ok \in BOOLEAN, dbOk \in BOOLEAN :
          trackStats(c, ok, dbOk) /\ UNCHANGED <<hist, boot, signups, page>>

AuthMe ==
    \E c \in Creds, ok \in BOOLEAN :
          authMe(c, ok) /\ UNCHANGED <<hist, boot, signups, page>>

CreateCheckout ==
    \E c \in Creds, ok \in BOOLEAN, t \in {"book", "premium_monthly", "gift"},
       priceSet \in BOOLEAN, createOk \in BOOLEAN :
          createCheckout(c, ok, t, priceSet, createOk) /\ UNCHANGED <<hist, boot, signups, page>>

NextAdmin ==
    \/ AdminPatchUser \/ AdminPatchFeature \/ AdminPostSettings \/ AdminGet \/ TrackStats
    \/ AuthMe \/ CreateCheckout

SpecAdmin == InitAdmin /\ [][NextAdmin]_vars

AdminRoutes ==
    { "admin/users/:id", "admin/features/:key", "admin/settings",
      "admin/users", "admin/features" }

\* The request the step answered went through requireAdmin.
AdminStep == resp'.route \in AdminRoutes

Admitted(r) == r.status \notin {Status401, Status403}

\* is_admin of the row the token's id names, as the store has it.
StoreAdmin(claims) == \E r \in users : r.id = claims.id /\ r.is_admin

\* C5: a request is let through requireAdmin only if the store's row of the
\* token's user has is_admin = true when the request is checked.
C5_GateFollowsStore ==
    [][(AdminStep /\ Admitted(resp')) => StoreAdmin(resp'.req.claims)]_vars

\* C6: a valid token whose claim is is_admin = false gets through the gate,
\* of the admin routes and of GET /track/stats alike, whenever the store
\* lookup answers and the row of the token's user has is_admin = true.
C6_LiveRecheck ==
    [][( /\ resp'.route \in AdminRoutes \cup {"track/stats"}
         /\ resp'.req.kind = "valid"
         /\ ~resp'.req.claims.is_admin
         /\ resp'.req.lookupOk
         /\ StoreAdmin(resp'.req.claims) ) => Admitted(resp')]_vars

\* C6 witness: the user promoted in the store changes a feature with the
\* token signed before the promotion.
C6_Witness ==
    /\ resp.route = "admin/features/:key" /\ resp.status = 200
    /\ resp.req.kind = "valid" /\ ~resp.req.claims.is_admin
    /\ resp.req.claims.id = 1
    /\ features # SeedFeatures

\* C7: behind requireAdmin, a request without a token or with a token that
\* jwt.verify rejects is answered 401; a request with a valid token whose
\* user is admin neither in the claim nor in the row the store returns is
\* answered 403; both leave users, features and settings as they were.
C7_GateDenies ==
    [][AdminStep =>
         /\ (resp'.req.kind \in {"none", "malformed", "expired"} =>
                /\ resp'.status = Status401
                /\ UNCHANGED <<users, features, settings>>)
         /\ ( ( /\ resp'.req.kind = "valid"
                /\ ~resp'.req.claims.is_admin
                /\ resp'.req.lookupOk
                /\ ~StoreAdmin(resp'.req.claims) ) =>
                /\ resp'.status = Status403
                /\ UNCHANGED <<users, features, settings>>)]_vars

\* C7 witness: the user demoted in the store, whose own token never carried
\* the claim, is answered 403 on the PATCH route after the store changed.
C7_Witness ==
    /\ resp.route = "admin/users/:id" /\ resp.status = Status403
    /\ resp.req.kind = "valid" /\ resp.req.claims.id = 1
    /\ users # AdminSeed

(***************************************************************************)
(* Payment events against a store with two customers-to-be, one request    *)
(* at a time (specification SpecPay)                                       *)
(***************************************************************************)
PaySeed == { EmailRow(1, "u@x.com", "password123"), EmailRow(2, "Admin@X.com", "password123") }

InitPay ==
    /\ users = PaySeed
    /\ serial = 2
    /\ now = 1
    /\ tokens = {}
    /\ procs = [ i \in Slots |-> Idle ]
    /\ resp = NoResponse
    /\ features = SeedFeatures
    /\ settings = SeedSettings
    /\ env \in { Env(TRUE, TRUE, Null), Env(FALSE, TRUE, Null), Env(TRUE, FALSE, Null) }
    /\ hist = NoHistory
    /\ boot = Loaded(TRUE)
    /\ signups = NoSignups
    /\ page = NoPage

PaySessions ==
    { s \in Sessions :
        /\ s.payment_status \in {"paid", "unpaid"}
        /\ (s.mode = "subscription") = (s.subscription # Null)
        /\ s.customer \in {Null, "cus_1"}
        /\ s.user_id \in { <<>>, <<0>>, <<1>>, <<2>> } }

SubEvent(type, customer, status) ==
    [ type |-> type, object |-> [ customer |-> customer, status |-> status ] ]

PayEvents ==
    [ type : {"checkout.session.completed"}, object : PaySessions ]
    \cup { SubEvent("customer.subscription.updated", c, st) : c \in Customers, st \in SubStatuses }
    \cup { SubEvent(t, c, "canceled") :
             t \in {"customer.subscription.deleted", "invoice.payment_failed", "charge.refunded"},
             c \in Customers }

\* The store is not reached unless the signature verifies, and only the
\* subscription events run their statement inside stripeWebhook.
WebhookInputs ==
    { in \in Signatures \X PayEvents \X BOOLEAN :
        in[3] \/ (in[1] = "valid" /\ in[2].type \in {"customer.subscription.deleted",
                                                     "customer.subscription.updated"}) }

StripeWebhook ==
    \E in \in WebhookInputs :
        stripeWebhook(1, in[1], in[2], in[3]) /\ UNCHANGED <<hist, boot, signups, page>>

\* Without session_id, or when retrieve rejects, there is no session.
CheckoutInputs ==
    { in \in BOOLEAN \X BOOLEAN \X (PaySessions \cup {NoSession}) :
        (in[3] # NoSession) = (in[1] /\ in[2]) }

CheckoutSuccess ==
    \E in \in CheckoutInputs :
        checkoutSuccess(1, in[1], in[2], in[3]) /\ UNCHANGED <<hist, boot, signups, page>>

UpdateStatement ==
    \E dbOk \in BOOLEAN : updateStatement(1, dbOk) /\ UNCHANGED <<hist, boot, signups, page>>

NextPay == StripeWebhook \/ CheckoutSuccess \/ UpdateStatement

SpecPay == InitPay /\ [][NextPay]_vars

\* A step in which a handler that holds no statement open answered:
\* resp' is the response of the request this step handled.
AnsweredAtOnce == UNCHANGED procs

BadSignatureStep ==
    AnsweredAtOnce /\ resp'.route = "webhook" /\ resp'.req.sig # "valid"

\* C1 as stated: a webhook request whose signature does not verify changes no
\* user row, is answered with a 4xx status and never reaches the switch.
C1_BadSignature4xx ==
    [][BadSignatureStep =>
         /\ UNCHANGED users
         /\ resp'.status \in 400..499
         /\ ~resp'.req.dispatched]_vars

\* C1, amended: such a request changes no user row and never reaches the
\* switch; it is answered 400 when STRIPE_WEBHOOK_SECRET is set and 500 when
\* it is not; the switch is reached only with a valid signature and with
\* both secrets set.
C1_BadSignatureRejected ==
    /\ [][BadSignatureStep =>
            /\ UNCHANGED users
            /\ resp'.status = IF env.STRIPE_WEBHOOK_SECRET THEN 400 ELSE 500
            /\ ~resp'.req.dispatched]_vars
    /\ []((resp.route = "webhook" /\ resp.req.dispatched) =>
            /\ resp.req.sig = "valid"
            /\ env.STRIPE_WEBHOOK_SECRET /\ env.STRIPE_SECRET_KEY)

\* C1 witness: a forged checkout.session.completed answered 400 by a store
\* that earlier verified events have changed.
C1_Witness ==
    /\ resp.route = "webhook" /\ resp.status = 400
    /\ resp.req.sig = "invalid"
    /\ resp.req.type = "checkout.session.completed"
    /\ users # PaySeed

Configured == env.STRIPE_WEBHOOK_SECRET /\ env.STRIPE_SECRET_KEY

TierOf(status) == IF status \in {"active", "trialing"} THEN "premium" ELSE "free"

\* C4: a verified customer.subscription.updated event with status S for
\* customer C, once its UPDATE has run, leaves every user whose
\* stripe_customer_id is C with subscription_status premium if S is active
\* or trialing and free otherwise, in whatever state earlier events
\* (customer.subscription.deleted among them) left the store; every other
\* row, and every other field, is as before.
C4_SubscriptionUpdated ==
    [][\A c \in Customers, st \in SubStatuses :
          ( /\ Configured
            /\ stripeWebhook(1, "valid", SubEvent("customer.subscription.updated", c, st), TRUE) )
          => /\ \A r \in users :
                   IF r.stripe_customer_id = c
                   THEN [r EXCEPT !.subscription_status = TierOf(st)] \in users'
                   ELSE r \in users'
             /\ Cardinality(users') = Cardinality(users)
             /\ \A q \in users' : q.stripe_customer_id = c =>
                   q.subscription_status = TierOf(st)]_vars

\* C4 witness: an update was applied and left a customer's user on the free
\* tier that a checkout had made premium, while a user without customer
\* reference keeps premium.
C4_Witness ==
    /\ resp.route = "webhook" /\ resp.req.type = "customer.subscription.updated"
    /\ resp.req.ok /\ resp.req.dispatched
    /\ \E r \in users : r.stripe_customer_id = "cus_1" /\ r.subscription_status = "free"
    /\ \E r \in users : r.stripe_customer_id = Null /\ r.subscription_status = "premium"

(***************************************************************************)
(* One checkout session, delivered by the webhook and by the redirect any  *)
(* number of times, the handlers' statements interleaved (specification    *)
(* SpecCheckout). hist keeps the session, the table before the first       *)
(* delivery, and how many handlers of each kind ran all their statements.  *)
(***************************************************************************)
CheckoutSeeds ==
    { { Entitled(EmailRow(1, "u@x.com", "password123"), e),
        Entitled(EmailRow(2, "Admin@X.com", "password123"), Entitlements[2]) } :
      e \in { Entitlements[1],
              [ subscription_status |-> "premium", has_book |-> FALSE,
                stripe_customer_id |-> "cus_2", is_admin |-> FALSE ] } }

DeliveredSessions ==
    { s \in Sessions : s.user_id \in { <<1>>, <<1, NonDigit>>, <<3>> } }

InitCheckout ==
    /\ users \in CheckoutSeeds
    /\ serial = 2
    /\ now = 1
    /\ tokens = {}
    /\ procs = [ i \in Slots |-> Idle ]
    /\ resp = NoResponse
    /\ features = SeedFeatures
    /\ settings = SeedSettings
    /\ env = Env(TRUE, TRUE, Null)
    /\ boot = Loaded(TRUE)
    /\ signups = NoSignups
    /\ page = NoPage
    /\ \E s \in DeliveredSessions :
          hist = [ users |-> users, session |-> s, webhooks |-> 0, redirects |-> 0 ]

Counted(n) == IF n < MaxCount THEN n + 1 ELSE n

\* The webhook delivers checkout.session.completed for the session.
Deliver ==
    \E slot \in Slots :
        /\ stripeWebhook(slot, "valid",
                         [ type |-> "checkout.session.completed", object |-> hist.session ], TRUE)
        /\ hist' = IF procs' = procs
                   THEN [hist EXCEPT !.webhooks = Counted(hist.webhooks)]
                   ELSE hist
        /\ UNCHANGED <<boot, signups, page>>

\* The browser comes back to /checkout-success with the session's id;
\* sessions.retrieve resolves with the session or rejects.
Return ==
    \E slot \in Slots, retrieveOk \in BOOLEAN :
        /\ checkoutSuccess(slot, TRUE, retrieveOk, IF retrieveOk THEN hist.session ELSE NoSession)
        /\ hist' = IF procs' = procs /\ retrieveOk
                   THEN [hist EXCEPT !.redirects = Counted(hist.redirects)]
                   ELSE hist
        /\ UNCHANGED <<boot, signups, page>>

\* One statement of an open handler resolves or rejects.
Statement ==
    \E slot \in Slots, dbOk \in BOOLEAN :
        /\ updateStatement(slot, dbOk)
        /\ hist' = IF procs'[slot].kind = "idle" /\ dbOk
                   THEN IF procs[slot].kind = "webhook"
                        THEN [hist EXCEPT !.webhooks = Counted(hist.webhooks)]
                        ELSE [hist EXCEPT !.redirects = Counted(hist.redirects)]
                   ELSE hist
        /\ UNCHANGED <<boot, signups, page>>

NextCheckout == Deliver \/ Return \/ Statement

SpecCheckout == InitCheckout /\ [][NextCheckout]_vars

SessionUser == ParseInt(hist.session.user_id)

\* The table after one handler alone has applied the session.
AppliedOnce == updateUserStripe(hist.users, SessionUser, hist.session.customer, hist.session.type)

\* C2: for a paid session that carries a user id, once no handler is open
\* and at least one handler (webhook or redirect) has run all its
\* statements, the users table is the one a single application leaves,
\* however many handlers ran and however their statements interleaved.
C2_Converge ==
    ( /\ IsPaid(hist.session)
      /\ Truthy(SessionUser)
      /\ AllIdle
      /\ hist.webhooks + hist.redirects >= 1 )
    => users = AppliedOnce

\* C2 witness: both entry points have completed for a paid premium session
\* with a customer, on a row that had another customer reference.
C2_Witness ==
    /\ IsPaid(hist.session) /\ AllIdle
    /\ hist.webhooks >= 1 /\ hist.redirects >= 1
    /\ hist.session.type = "premium" /\ hist.session.customer = "cus_1"
    /\ users # hist.users
    /\ \E r \in users : r.id = 1 /\ r.stripe_customer_id = "cus_1"

\* C3: after one or more completed webhook deliveries of a 'book' session
\* with a user id, the table is the one a single delivery leaves: the
\* user's has_book is true, stripe_customer_id is the session's customer
\* when it has one, subscription_status is what it was, and no other row
\* differs.
C3_BookIdempotent ==
    ( /\ hist.session.type = "book"
      /\ Truthy(SessionUser)
      /\ AllIdle
      /\ hist.webhooks >= 1 )
    => /\ users = AppliedOnce
       /\ \A r \in users : r.id = SessionUser =>
             /\ r.has_book
             /\ (hist.session.customer # Null => r.stripe_customer_id = hist.session.customer)
             /\ \E r0 \in hist.users :
                   r0.id = r.id /\ r0.subscription_status = r.subscription_status
       /\ \A r \in users : r.id # SessionUser => r \in hist.users

\* C3 witness: two webhook deliveries of a book session completed, no
\* redirect, for a premium user who did not have the book.
C3_Witness ==
    /\ hist.session.type = "book" /\ AllIdle
    /\ hist.webhooks = 2 /\ hist.redirects = 0
    /\ \E r \in users : r.id = 1 /\ r.has_book /\ r.subscription_status = "premium"
    /\ \E r \in hist.users : r.id = 1 /\ ~r.has_book

\* The table the redirect callback leaves when it alone processes the
\* session and every statement resolves.
RedirectEffect(tbl, session) ==
    IF IsPaid(session) /\ Truthy(ParseInt(session.user_id))
    THEN updateUserStripe(tbl, ParseInt(session.user_id), session.customer, session.type)
    ELSE tbl

\* The session under test is paid and names a user.
PaidWithUser == IsPaid(hist.session) /\ Truthy(SessionUser)

C16_WebhookAsRedirect ==
    ( /\ AllIdle
      /\ hist.webhooks >= 1
      /\ hist.redirects = 0 )
    => users = RedirectEffect(hist.users, hist.session)

(***************************************************************************)
(* Further properties of the payment events (specification SpecPay)        *)
(***************************************************************************)
\* C17: a webhook request that constructEvent accepted (valid signature,
\* both secrets set) is answered 200 with {received: true}, whatever the
\* event and whether the handler's store statement resolved or rejected.
C17_AlwaysReceived ==
    ( /\ resp.route = "webhook"
      /\ resp.req.sig = "valid"
      /\ Configured )
    => /\ resp.status = 200
       /\ resp.body = "received"
       /\ resp.req.dispatched

\* C17 witness: customer.subscription.deleted whose UPDATE rejected,
\* acknowledged with 200.
C17_Witness ==
    /\ resp.route = "webhook" /\ resp.status = 200
    /\ resp.req.sig = "valid"
    /\ resp.req.type = "customer.subscription.deleted"
    /\ ~resp.req.ok

\* The events that the switch logs or ignores.
IgnoredTypes == {"invoice.payment_failed", "charge.refunded"}

\* checkout.session.completed events whose metadata has no user_id
NoUserEvents ==
    { ev \in PayEvents : ev.type = "checkout.session.completed" /\ ev.object.user_id = <<>> }

\* A step in which the webhook answered a verified event of the given type
\* without opening a statement.
VerifiedEventStep(types) ==
    /\ Configured
    /\ AnsweredAtOnce
    /\ resp'.route = "webhook"
    /\ resp'.req.sig = "valid"
    /\ resp'.req.type \in types

\* C18: a verified event of type invoice.payment_failed, of a type the
\* switch does not name, or of type checkout.session.completed whose
\* metadata has no user_id changes no user row and opens no statement.
C18_IgnoredEvents ==
    /\ [][VerifiedEventStep(IgnoredTypes) =>
            /\ UNCHANGED users
            /\ resp'.status = 200]_vars
    /\ [][VerifiedEventStep({"checkout.session.completed"}) => UNCHANGED users]_vars
    /\ [][( /\ Configured
            /\ \/ procs' # procs
               \/ (resp'.route = "webhook" /\ resp'.req.type = "checkout.session.completed") )
          => \A ev \in NoUserEvents :
                stripeWebhook(1, "valid", ev, TRUE)
                => /\ UNCHANGED <<users, procs>>
                   /\ resp'.status = 200]_vars

\* C18 witness: invoice.payment_failed acknowledged while its customer's
\* user is on the premium tier.
C18_Witness ==
    /\ resp.route = "webhook" /\ resp.req.type = "invoice.payment_failed"
    /\ resp.req.sig = "valid" /\ resp.status = 200
    /\ \E r \in users : r.stripe_customer_id = "cus_1" /\ r.subscription_status = "premium"

\* C19: a verified customer.subscription.deleted event for customer C, once
\* its UPDATE has run, leaves every user whose stripe_customer_id is C with
\* subscription_status free and every other field as it was; every user with
\* another customer reference, or none, is as it was.
C19_SubscriptionDeleted ==
    [][\A c \in Customers :
          ( /\ Configured
            /\ stripeWebhook(1, "valid", SubEvent("customer.subscription.deleted", c, "canceled"), TRUE) )
          => /\ \A r \in users :
                   IF r.stripe_customer_id = c
                   THEN [r EXCEPT !.subscription_status = "free"] \in users'
                   ELSE r \in users'
             /\ Cardinality(users') = Cardinality(users)]_vars

\* C19 witness: the deletion was applied to a premium user who owns the
\* book; the user is on the free tier with book and customer reference, and a
\* user without customer reference is still premium.
C19_Witness ==
    /\ resp.route = "webhook" /\ resp.req.type = "customer.subscription.deleted"
    /\ resp.req.ok /\ resp.req.dispatched
    /\ \E r \in users : /\ r.stripe_customer_id = "cus_1" /\ r.subscription_status = "free"
                        /\ r.has_book
    /\ \E r \in users : r.stripe_customer_id = Null /\ r.subscription_status = "premium"

(***************************************************************************)
(* Session resolution on every endpoint that reads the token               *)
(* (specification SpecAdmin)                                               *)
(***************************************************************************)
SessionRoutes == AdminRoutes \cup {"auth/me", "stripe/create-checkout", "track/stats"}

\* C20: GET /auth/me, the routes behind requireAdmin, POST
\* /stripe/create-checkout and GET /track/stats answer a token that
\* jwt.verify rejects (malformed or expired) with 401.
C20_BadToken401 ==
    ( /\ resp.route \in SessionRoutes
      /\ resp.req.kind \in {"malformed", "expired"} )
    => resp.status = 401

(***************************************************************************)
(* An account from sign-up through admin changes and payments              *)
(* (specification SpecLife): the store holds the administrator, and one    *)
(* visitor signs up, signs in, pays and is edited by the administrator.    *)
(***************************************************************************)
LifeSeed == { [EmailRow(1, "Admin@X.com", "password123") EXCEPT !.is_admin = TRUE] }

InitLife ==
    /\ users = LifeSeed
    /\ serial = 1
    /\ now = 1
    /\ tokens = { signJWT(r, r.is_admin) : r \in LifeSeed }
    /\ procs = [ i \in Slots |-> Idle ]
    /\ resp = NoResponse
    /\ features = SeedFeatures
    /\ settings = SeedSettings
    /\ env = Env(TRUE, TRUE, Null)
    /\ hist = NoHistory
    /\ boot = Loaded(TRUE)
    /\ signups = NoSignups
    /\ page = NoPage

LifeCreds == { Cred("valid", t) : t \in tokens }

LifeSignup == emailSignup("u@x.com", "password123", Null, "none") /\ UNCHANGED <<hist, boot, signups, page>>

LifeSignin ==
    \E pw \in Passwords : emailSignin("u@x.com", pw, "none") /\ UNCHANGED <<hist, boot, signups, page>>

LifePatchBodies == { b \in PatchBodies : Cardinality(b.present) = 1 }

LifePatchUser ==
    \E c \in LifeCreds, b \in LifePatchBodies :
        adminPatchUser(c, TRUE, <<2>>, b, 0) /\ UNCHANGED <<hist, boot, signups, page>>

LifeMe == \E c \in LifeCreds : authMe(c, TRUE) /\ UNCHANGED <<hist, boot, signups, page>>

LifeCheckout ==
    \E c \in LifeCreds, t \in {"book", "premium_monthly"} :
        createCheckout(c, TRUE, t, TRUE, TRUE) /\ UNCHANGED <<hist, boot, signups, page>>

LifeSessions ==
    { s \in PaySessions : s.user_id = <<2>> /\ s.type # Null }

LifeEvents ==
    [ type : {"checkout.session.completed"}, object : LifeSessions ]
    \cup { SubEvent("customer.subscription.updated", "cus_1", st) : st \in SubStatuses }
    \cup { SubEvent("customer.subscription.deleted", "cus_1", "canceled") }

LifeWebhook == \E ev \in LifeEvents : stripeWebhook(1, "valid", ev, TRUE) /\ UNCHANGED <<hist, boot, signups, page>>

LifeRedirect ==
    \E session \in LifeSessions : checkoutSuccess(2, TRUE, TRUE, session) /\ UNCHANGED <<hist, boot, signups, page>>

LifeStatement == \E slot \in Slots : updateStatement(slot, TRUE) /\ UNCHANGED <<hist, boot, signups, page>>

NextLife ==
    \/ LifeSignup \/ LifeSignin \/ LifePatchUser \/ LifeMe \/ LifeCheckout
    \/ LifeWebhook \/ LifeRedirect \/ LifeStatement

SpecLife == InitLife /\ [][NextLife]_vars

\* C21: GET /auth/me answers 200 with the store's current row of the
\* token's user id, not with what the token carried: the row a sign-up
\* creates is on tier 'free', an admin PATCH that is answered 200 leaves the
\* tier it carried in the row, and every later 200 of /auth/me is that row.
C21_MeReadsStore ==
    [][ /\ ( resp'.route = "auth/me" /\ resp'.status = 200 /\ AnsweredAtOnce )
           => /\ resp'.body \in users'
              /\ resp'.body.id = resp'.req.claims.id
        /\ ( resp'.route = "signup" /\ resp'.status = 201 /\ users' # users )
           => \A r \in users' \ users :
                 r.id = resp'.token.id /\ r.subscription_status = "free"
        /\ ( /\ LifePatchUser /\ resp'.status = 200
             /\ \E b \in LifePatchBodies :
                   /\ b.present = {"subscription_status"}
                   /\ b.subscription_status = "premium"
                   /\ \E c \in LifeCreds : adminPatchUser(c, TRUE, <<2>>, b, 0) )
           => \A r \in users' : r.id = 2 => r.subscription_status = "premium" ]_vars

\* C21 witness: /auth/me has answered the visitor's token, which was signed
\* at sign-up and carries no tier, with the row on tier 'premium'.
C21_Witness ==
    /\ resp.route = "auth/me" /\ resp.status = 200
    /\ resp.req.claims.id = 2
    /\ resp.body \in users
    /\ resp.body.subscription_status = "premium"

\* C22: through sign-ups, sign-ins, admin PATCHes, redirect callbacks and
\* webhook events every row's subscription_status is 'free' or 'premium',
\* and an admin PATCH that carries any other subscription_status past the
\* gate is answered 400 and changes no row.
C22_TierDomain ==
    /\ [](\A r \in users : r.subscription_status \in Tiers)
    /\ [][ \A c \in LifeCreds, b \in LifePatchBodies :
              ( /\ "subscription_status" \in b.present
                /\ b.subscription_status \notin Tiers
                /\ requireAdmin(c, TRUE) = Next0
                /\ adminPatchUser(c, TRUE, <<2>>, b, 0) )
              => resp'.status = 400 /\ UNCHANGED users ]_vars

\* C22 witness: the administrator's PATCH of an existing user was answered
\* 400 after payments had made that user premium.
C22_Witness ==
    /\ resp.route = "admin/users/:id" /\ resp.status = 400
    /\ resp.req.kind = "valid" /\ resp.req.claims.is_admin
    /\ \E r \in users : r.id = 2 /\ r.subscription_status = "premium"
                        /\ r.stripe_customer_id # Null

\* A step of a checkout handler: the redirect callback or the webhook
\* answering, or one of their awaited statements resolving.
PaymentStep ==
    \/ procs' # procs
    \/ resp'.route \in {"webhook", "checkout-success"}

\* C28: no step of the redirect callback or of the webhook turns a row's
\* has_book from true to false or replaces a stored stripe_customer_id by
\* null; a step that clears has_book is an admin PATCH /admin/users/:id
\* answered 200.
C28_BookMonotone ==
    [][ \A r \in users, q \in users' :
          q.id = r.id =>
            /\ ( r.stripe_customer_id # Null => q.stripe_customer_id # Null )
            /\ ( r.has_book /\ ~q.has_book )
               => /\ ~PaymentStep
                  /\ resp'.route = "admin/users/:id" /\ resp'.status = 200 ]_vars

\* C28 witness: the redirect callback has run its statements for a premium
\* purchase of a user who owned the book and had a stored customer
\* reference; the row is premium and both are still there.
C28_Witness ==
    /\ resp.route = "checkout-success" /\ resp.req.ok
    /\ resp.body = SuccessPage("premium")
    /\ procs[2].kind = "idle"
    /\ \E r \in users : /\ r.id = 2 /\ r.has_book /\ r.stripe_customer_id = "cus_1"
                        /\ r.subscription_status = "premium"

SubscriptionTypes == {"customer.subscription.updated", "customer.subscription.deleted"}

SubscriptionEvents == { ev \in PayEvents : ev.type \in SubscriptionTypes }

\* The rows the WHERE clause of the subscription branches selects.
RowsByCustomer(tbl, customer) ==
    { r \in tbl : r.stripe_customer_id # Null /\ r.stripe_customer_id = customer }

\* C27: a verified customer.subscription.updated or .deleted event whose
\* customer is stored on no row changes no row, is answered 200 and leaves
\* no statement open; and whatever events came before, the
\* subscription_status statement of a checkout.session.completed of type
\* 'premium' sets that user's tier to 'premium'.
C27_UnknownCustomer ==
    /\ [][ VerifiedEventStep(SubscriptionTypes)
           => \A ev \in SubscriptionEvents, dbOk \in BOOLEAN :
                ( /\ RowsByCustomer(users, ev.object.customer) = {}
                  /\ stripeWebhook(1, "valid", ev, dbOk) )
                => /\ UNCHANGED <<users, procs>>
                   /\ resp'.status = 200 ]_vars
    /\ [][ ( /\ procs[1].kind = "webhook" /\ procs[1].pc = "subscription_status"
             /\ updateStatement(1, TRUE) )
           => \A q \in users' :
                 q.id = procs[1].userId => q.subscription_status = "premium" ]_vars

\* C27 witness: a subscription deletion was acknowledged while no row has a
\* customer reference and every row is as the store was seeded.
C27_Witness ==
    /\ resp.route = "webhook" /\ resp.status = 200
    /\ resp.req.sig = "valid" /\ resp.req.type = "customer.subscription.deleted"
    /\ resp.req.ok
    /\ users = PaySeed

(***************************************************************************)
(* src/server.js: lazy initialisation of the database, and initDB          *)
(***************************************************************************)
\* A table that has not been created or seeded yet.
EmptyTable == [ k \in {} |-> TRUE ]

\* INSERT ... ON CONFLICT (key) DO UPDATE: the seed replacing what is there.
SeedOverwriting(tbl, seed) ==
    [ k \in DOMAIN tbl \cup DOMAIN seed |-> IF k \in DOMAIN seed THEN seed[k] ELSE tbl[k] ]

\* INSERT INTO <table> ... ON CONFLICT (key) DO NOTHING
SeedMissing(tbl, seed) ==
    [ k \in DOMAIN tbl \cup DOMAIN seed |-> IF k \in DOMAIN tbl THEN tbl[k] ELSE seed[k] ]

Settled == {"resolved", "rejected"}

\* The promise the next async function ensureDB starts will be.
NextPromise == 1 + Cardinality({ p \in Promises : boot.runs[p] # "none" })

\* ensureDB that looks at the flag only, not at the promise in flight.
ensureDBFlagOnly(s) ==
    LET p == NextPromise
    IN  /\ boot.reqs[s].state = "idle"
        /\ UNCHANGED <<users, serial, now, tokens, procs, resp, env, features, settings>>
        /\ IF boot.dbInitialized
           THEN boot' = [boot EXCEPT !.reqs[s] = Request("waiting", 0)]
           ELSE /\ p \in Promises
                /\ boot' = IF ~boot.DATABASE_URL
                           THEN [boot EXCEPT !.dbInitialized = TRUE, !.dbInitPromise = p,
                                             !.runs[p] = "resolved",
                                             !.reqs[s] = Request("waiting", p)]
                           ELSE [boot EXCEPT !.dbInitPromise = p, !.runs[p] = "initDB",
                                             !.initDBCalls = @ + 1,
                                             !.reqs[s] = Request("waiting", p)]

\* The middleware calling ensureDB() for the request in slot s. The async
\* function runs up to its first await inside the call: without DATABASE_URL
\* it sets the flag and returns, with it initDB() has been called.
ensureDB(s) ==
    LET p == NextPromise
    IN  /\ boot.reqs[s].state = "idle"
        /\ UNCHANGED <<users, serial, now, tokens, procs, resp, env, features, settings>>
        /\ IF boot.dbInitialized
           THEN boot' = [boot EXCEPT !.reqs[s] = Request("waiting", 0)]
           ELSE IF boot.dbInitPromise # 0
           THEN boot' = [boot EXCEPT !.reqs[s] = Request("waiting", boot.dbInitPromise)]
           ELSE /\ p \in Promises
                /\ boot' = IF ~boot.DATABASE_URL
                           THEN [boot EXCEPT !.dbInitialized = TRUE, !.dbInitPromise = p,
                                             !.runs[p] = "resolved",
                                             !.reqs[s] = Request("waiting", p)]
                           ELSE [boot EXCEPT !.dbInitPromise = p, !.runs[p] = "initDB",
                                             !.initDBCalls = @ + 1,
                                             !.reqs[s] = Request("waiting", p)]

\* initDB settling, with ensureDB forgetting a promise that rejected.
initDBSettlesRetrying(p, failAt) ==
    /\ boot.runs[p] = "initDB"
    /\ UNCHANGED <<users, serial, now, tokens, procs, resp, env>>
    /\ features' = IF failAt = 1 THEN features ELSE SeedMissing(features, SeedFeatures)
    /\ settings' = IF failAt = 0 THEN SeedMissing(settings, SeedSettings) ELSE settings
    /\ boot' = IF failAt = 0
               THEN [boot EXCEPT !.runs[p] = "initTracking"]
               ELSE [boot EXCEPT !.runs[p] = "rejected", !.dbInitPromise = 0]

\* await initDB() settling inside the async function of promise p. failAt: 0
\* when every statement resolves, 1 when one rejects before the features are
\* seeded, 2 when one rejects after that and before the settings are seeded.
\* A rejection leaves the async function, so its promise rejects with the
\* flag untouched.
initDBSettles(p, failAt) ==
    /\ boot.runs[p] = "initDB"
    /\ UNCHANGED <<users, serial, now, tokens, procs, resp, env>>
    /\ features' = IF failAt = 1 THEN features ELSE SeedMissing(features, SeedFeatures)
    /\ settings' = IF failAt = 0 THEN SeedMissing(settings, SeedSettings) ELSE settings
    /\ boot' = IF failAt = 0
               THEN [boot EXCEPT !.runs[p] = "initTracking"]
               ELSE [boot EXCEPT !.runs[p] = "rejected"]

\* await initTracking() settling: a rejection is caught and logged, and
\* either way the flag is set and the promise resolves.
initTrackingSettles(p, ok) ==
    /\ boot.runs[p] = "initTracking"
    /\ UNCHANGED <<users, serial, now, tokens, procs, resp, env, features, settings>>
    /\ boot' = [boot EXCEPT !.runs[p] = "resolved", !.dbInitialized = TRUE,
                            !.tracking = IF ok THEN "ready" ELSE "disabled"]

\* ensureDB().then(() => next()).catch(() => next())
next(s) ==
    LET r == boot.reqs[s]
    IN  /\ r.state = "waiting"
        /\ IF r.awaits = 0 THEN TRUE ELSE boot.runs[r.awaits] \in Settled
        /\ UNCHANGED <<users, serial, now, tokens, procs, resp, env, features, settings>>
        /\ boot' = [boot EXCEPT !.reqs[s] = Request("handler", r.awaits)]

\* The process is replaced by a new one (a cold start): module scope is as
\* loaded, nothing is in flight, the database is as it was left.
ColdStart(url) ==
    /\ boot' = Loaded(url)
    /\ procs' = [ i \in Slots |-> Idle ]
    /\ resp' = NoResponse
    /\ UNCHANGED <<users, serial, now, tokens, env, features, settings>>

(***************************************************************************)
(* Requests through the middleware while the database is initialised       *)
(* (specification SpecBoot). The database has the users of an earlier      *)
(* release and neither features nor settings.                              *)
(***************************************************************************)
InitBoot ==
    /\ users = AdminSeed
    /\ serial = 2
    /\ now = 1
    /\ tokens = { signJWT(r, r.is_admin) : r \in AdminSeed }
    /\ procs = [ i \in Slots |-> Idle ]
    /\ resp = NoResponse
    /\ features = EmptyTable
    /\ settings = EmptyTable
    /\ env = Env(TRUE, TRUE, Null)
    /\ hist = NoHistory
    /\ boot \in { Loaded(url) : url \in BOOLEAN }
    /\ signups = NoSignups
    /\ page = NoPage

Arrive == \E s \in Slots : ensureDB(s) /\ UNCHANGED <<hist, signups, page>>

InitDBSettles ==
    \E p \in Promises, failAt \in 0..2 :
        initDBSettles(p, failAt) /\ UNCHANGED <<hist, signups, page>>

InitTrackingSettles ==
    \E p \in Promises, ok \in BOOLEAN :
        initTrackingSettles(p, ok) /\ UNCHANGED <<hist, signups, page>>

Proceed == \E s \in Slots : next(s) /\ UNCHANGED <<hist, signups, page>>

\* The store calls of a handler resolve only if there is a database and the
\* table they read exists.
BootCreds == { NoCred } \cup { Cred("valid", t) : t \in { c \in tokens : c.is_admin } }

\* The route handler of the request in slot s: PATCH /api/admin/features/:key
Handle ==
    \E s \in Slots, c \in BootCreds, k \in {"community", "no-such-key"},
       enabled \in {"true", "false", "yes"}, dbOk \in BOOLEAN :
        /\ boot.reqs[s].state = "handler"
        /\ dbOk => (boot.DATABASE_URL /\ DOMAIN features # {})
        /\ adminPatchFeature(c, boot.DATABASE_URL, k, enabled # "yes", enabled = "true", dbOk)
        /\ boot' = [boot EXCEPT !.reqs[s] = Request("idle", 0)]
        /\ UNCHANGED <<hist, signups, page>>

\* POST /api/stripe/webhook is mounted before the middleware: its handler
\* runs without ensureDB.
BootWebhook ==
    \E dbOk \in BOOLEAN :
        /\ dbOk => boot.DATABASE_URL
        /\ stripeWebhook(1, "valid",
                         SubEvent("customer.subscription.deleted", "cus_1", "canceled"), dbOk)
        /\ UNCHANGED <<hist, boot, signups, page>>

Restart ==
    \E url \in BOOLEAN : ColdStart(url) /\ UNCHANGED <<hist, signups, page>>

NextBoot ==
    \/ Arrive \/ InitDBSettles \/ InitTrackingSettles \/ Proceed \/ Handle
    \/ BootWebhook \/ Restart

SpecBoot == InitBoot /\ [][NextBoot]_vars

\* A step of a route handler behind the middleware.
HandlerStep == \E s \in Slots : boot.reqs[s].state = "handler" /\ boot'.reqs[s].state = "idle"

\* C24: a feature's enabled value changes only in a PATCH
\* /admin/features/:key that is answered 200, which a body with a
\* non-boolean enabled (400) or an unknown key (404) never is; initDB run
\* again by a later process leaves every existing row as it is, and no step
\* deletes a row.
C24_FlagsOnlyByAdmin ==
    [][ /\ DOMAIN features \subseteq DOMAIN features'
        /\ \A k \in DOMAIN features :
              features'[k] # features[k]
              => /\ HandlerStep
                 /\ resp'.route = "admin/features/:key" /\ resp'.status = 200
        /\ ( /\ HandlerStep /\ resp'.route = "admin/features/:key"
             /\ resp'.status \in {400, 404} )
           => UNCHANGED features
        /\ HandlerStep
           => \A c \in BootCreds, k \in {"community", "no-such-key"}, dbOk \in BOOLEAN :
                 ( /\ requireAdmin(c, boot.DATABASE_URL) = Next0
                   /\ adminPatchFeature(c, boot.DATABASE_URL, k, FALSE, FALSE, dbOk) )
                 => resp'.status = 400 /\ UNCHANGED features ]_vars

\* C24 witness: a process that has answered nothing yet has finished
\* initDB on a database in which an admin had disabled a seeded feature, and
\* the feature is still disabled.
C24_Witness ==
    /\ resp = NoResponse
    /\ boot.dbInitialized /\ boot.initDBCalls = 1
    /\ "community" \in DOMAIN features /\ ~features["community"]
    /\ features["health-score"]

\* C25: in one process initDB is called at most once; every request that
\* ensureDB made wait for the initialisation waits for the one promise
\* _dbInitPromise holds; and a request is in its route handler only when
\* that promise has settled.
C25_SingleInit ==
    /\ boot.initDBCalls <= 1
    /\ \A s \in Slots :
          LET r == boot.reqs[s]
          IN  /\ (r.state # "idle" /\ r.awaits # 0) => r.awaits = boot.dbInitPromise
              /\ r.state = "handler"
                 => /\ boot.dbInitPromise # 0
                    /\ boot.runs[boot.dbInitPromise] \in Settled

\* C25 witness: two requests called ensureDB before the first initDB had
\* finished; initDB was called once, both waited for the same promise, and
\* both are in their handlers after it resolved.
C25_Witness ==
    /\ boot.DATABASE_URL /\ boot.initDBCalls = 1
    /\ \A s \in Slots : boot.reqs[s] = Request("handler", 1)
    /\ boot.runs[1] = "resolved"

\* The process has been replaced.
Restarted == \E url \in BOOLEAN : boot' = Loaded(url)

\* C30: after initDB rejected, the flag is false and stays false, the
\* rejected promise stays in _dbInitPromise, every later ensureDB call
\* returns it without calling initDB again, and a request waiting for it can
\* go on to its handler; when initTracking settles, rejected or not, the
\* promise resolves and the flag is true.
C30_InitFailure ==
    /\ [](\A p \in Promises :
            boot.runs[p] = "rejected"
            => /\ ~boot.dbInitialized
               /\ boot.dbInitPromise = p
               /\ boot.initDBCalls = 1
               /\ \A s \in Slots :
                     boot.reqs[s].state = "waiting" => ENABLED next(s))
    /\ [][ ~Restarted
           => \A p \in Promises :
                /\ boot.runs[p] = "rejected"
                   => /\ boot'.runs[p] = "rejected"
                      /\ \A s \in Slots :
                            ( boot.reqs[s].state = "idle" /\ boot'.reqs[s].state = "waiting" )
                            => boot'.reqs[s].awaits = p
                /\ ( boot.runs[p] = "initTracking" /\ boot'.runs[p] # "initTracking" )
                   => boot'.runs[p] = "resolved" /\ boot'.dbInitialized ]_vars

\* C30 witness: initDB rejected once, and both requests, which got the same
\* rejected promise, have been passed on to their handlers.
C30_Witness ==
    /\ boot.runs[1] = "rejected" /\ ~boot.dbInitialized /\ boot.initDBCalls = 1
    /\ \A s \in Slots : boot.reqs[s] = Request("handler", 1)

(***************************************************************************)
(* POST /api/auth/email/signup as the two store calls it awaits, with      *)
(* other requests in between (specification SpecRace)                      *)
(***************************************************************************)
\* The handler up to 'await getUserByEmail(email)' and what it does with the
\* result: an answer at once (400, 409), or on to bcrypt.hash.
signupLookup(s, email, password) ==
    /\ signups[s].state = "idle"
    /\ IF \/ email = Null \/ password = Null
          \/ Len(password) < MinPasswordLength
          \/ getUserByEmail(users, email) # {}
       THEN /\ emailSignup(email, password, Null, "none")
            /\ UNCHANGED signups
       ELSE /\ signups' = [signups EXCEPT ![s] = Signup("hashing", email, password)]
            /\ UNCHANGED <<users, serial, now, tokens, procs, resp, env, features, settings>>

\* 'await createEmailUser(...)' and the rest of the handler. users.email is
\* UNIQUE: when a row with the email exists by now the INSERT rejects, after
\* the sequence has handed out its value, and the catch answers 500.
signupInsert(s) ==
    LET h == signups[s]
    IN  /\ h.state = "hashing"
        /\ signups' = [signups EXCEPT ![s] = Signup("idle", Null, Null)]
        /\ IF RowsByEmail(users, h.email) # {}
           THEN /\ serial < MaxSerial
                /\ serial' = serial + 1
                /\ resp' = Response("signup", 500, "Sign-up failed",
                                    AuthReq(Null, h.email, h.password, FALSE))
                /\ UNCHANGED <<users, now, tokens, procs, env, features, settings>>
           ELSE emailSignup(h.email, h.password, Null, "none")

InitRace ==
    /\ users = {}
    /\ serial = 0
    /\ now = 1
    /\ tokens = {}
    /\ procs = [ i \in Slots |-> Idle ]
    /\ resp = NoResponse
    /\ features = SeedFeatures
    /\ settings = SeedSettings
    /\ env = Env(TRUE, TRUE, Null)
    /\ hist = NoHistory
    /\ boot = Loaded(TRUE)
    /\ signups = NoSignups
    /\ page = NoPage

SignupLookup ==
    \E s \in Slots, e \in Emails, pw \in Passwords :
        signupLookup(s, e, pw) /\ UNCHANGED <<hist, boot, page>>

SignupInsert == \E s \in Slots : signupInsert(s) /\ UNCHANGED <<hist, boot, page>>

RaceSignin ==
    \E e \in Emails, pw \in Passwords :
        emailSignin(e, pw, "none") /\ UNCHANGED <<hist, boot, signups, page>>

NextRace == SignupLookup \/ SignupInsert \/ RaceSignin

SpecRace == InitRace /\ [][NextRace]_vars

\* C26: a sign-up whose existence check found no row and whose INSERT runs
\* after another sign-up has created the row for the same email creates no
\* row and is answered 409; one whose INSERT finds no row creates exactly
\* one and is answered 201 with a session.
C26_RaceConflict ==
    [][ \A s \in Slots :
          ( signups[s].state = "hashing" /\ signups'[s].state = "idle" )
          => IF RowsByEmail(users, signups[s].email) # {}
             THEN /\ UNCHANGED users
                  /\ resp'.route = "signup" /\ resp'.status = 409
             ELSE /\ Cardinality(users') = Cardinality(users) + 1
                  /\ resp'.route = "signup" /\ resp'.status = 201
                  /\ resp'.token \in tokens' ]_vars

(***************************************************************************)
(* The site-lock script in the browser: src/sitelock.js and the copy in    *)
(* src/unnamed/part_001 (specification SpecLock)                           *)
(***************************************************************************)
Scripts == {"sitelock.js", "part_001"}

\* localStorage 'ia_user': no item, text JSON.parse rejects, a user, an admin
StoredUsers == {Null, "garbage", "user", "admin"}

\* isAdmin: set only when the item parses and its is_admin is truthy
IsAdminStored(stored) == stored = "admin"

\* What the script reads of the JSON it received: the truthiness of
\* sitelock_enabled and of unlocked; a body without them reads as false.
LockData(enabled, unlocked) == [ sitelock_enabled |-> enabled, unlocked |-> unlocked ]

\* GET /api/settings as the specification describes it: the stored setting
\* and whether the request carries the bypass cookie; sitelock_enabled false
\* when the store is unreachable.
LockStatus(dbOk, cookie) ==
    IF ~dbOk THEN LockData(FALSE, FALSE)
    ELSE LockData(settings.sitelock_enabled = "true", cookie)

\* The .then(data) of src/sitelock.js: what becomes of the overlay
checkLockStatus(data, stored) ==
    IF ~data.sitelock_enabled \/ data.unlocked THEN "removed"
    ELSE IF IsAdminStored(stored) THEN "banner"
    ELSE "splash"

\* The .then(data) of src/unnamed/part_001
checkLockStatus001(data, stored) ==
    IF ~data.sitelock_enabled THEN "removed"
    ELSE IF IsAdminStored(stored) THEN "banner"
    ELSE "splash"

\* The script starts: it returns at once on the admin page, otherwise it
\* appends the overlay and sends the fetch.
loadScript(script, adminPage, stored) ==
    /\ page' = IF adminPage
               THEN [NoPage EXCEPT !.script = script, !.stored = stored]
               ELSE [NoPage EXCEPT !.script = script, !.stored = stored,
                                   !.overlay = "blocking", !.fetch = "pending"]
    /\ UNCHANGED <<users, serial, now, tokens, procs, resp, env, features, settings>>

\* The fetch settles. kind: "rejected" (fetch rejects), "nonjson" (r.json()
\* rejects), "error" (a JSON body without the two fields), "json" (the
\* endpoint's answer). Both rejections end in the catch.
fetchSettles(kind, dbOk, cookie) ==
    LET data    == IF kind = "json" THEN LockStatus(dbOk, cookie) ELSE LockData(FALSE, FALSE)
        outcome == IF kind \in {"rejected", "nonjson"} THEN "removed"
                   ELSE IF page.script = "sitelock.js"
                   THEN checkLockStatus(data, page.stored)
                   ELSE checkLockStatus001(data, page.stored)
    IN  /\ page.fetch = "pending"
        /\ page' = [page EXCEPT !.fetch = kind, !.data = data,
                                !.served = [ dbOk |-> dbOk, cookie |-> cookie ],
                                !.overlay = IF outcome = "splash" THEN "splash" ELSE "removed",
                                !.banner = (outcome = "banner")]
        /\ UNCHANGED <<users, serial, now, tokens, procs, resp, env, features, settings>>

InitLock ==
    /\ users = AdminSeed
    /\ serial = 2
    /\ now = 1
    /\ tokens = { signJWT(r, r.is_admin) : r \in AdminSeed }
    /\ procs = [ i \in Slots |-> Idle ]
    /\ resp = NoResponse
    /\ features = SeedFeatures
    /\ settings = SeedSettings
    /\ env = Env(TRUE, TRUE, Null)
    /\ hist = NoHistory
    /\ boot = Loaded(TRUE)
    /\ signups = NoSignups
    /\ page = NoPage

LoadScript ==
    \E script \in Scripts, adminPage \in BOOLEAN, stored \in StoredUsers :
        loadScript(script, adminPage, stored) /\ UNCHANGED <<hist, boot, signups>>

FetchSettles ==
    \E kind \in {"rejected", "nonjson", "error", "json"}, dbOk \in BOOLEAN, cookie \in BOOLEAN :
        /\ kind # "json" => (dbOk /\ ~cookie)
        /\ fetchSettles(kind, dbOk, cookie)
        /\ UNCHANGED <<hist, boot, signups>>

LockSettings ==
    \E c \in BootCreds, truthy \in BOOLEAN :
        adminPostSettings(c, TRUE, TRUE, truthy, FALSE, Null, 0)
        /\ UNCHANGED <<hist, boot, signups, page>>

NextLock == LoadScript \/ FetchSettles \/ LockSettings

SpecLock == InitLock /\ [][NextLock]_vars

\* C23: when the store is unreachable the endpoint answers sitelock_enabled
\* false; the script has removed its overlay whenever the fetch rejected, the
\* body was not JSON or sitelock_enabled was not truthy; and the splash is
\* on the page only if the answer had sitelock_enabled true and unlocked not
\* true and the stored user is not an admin.
C23_FailOpen ==
    /\ ( page.fetch = "json" /\ ~page.served.dbOk ) => ~page.data.sitelock_enabled
    /\ ( \/ page.fetch \in {"rejected", "nonjson", "error"}
         \/ (page.fetch = "json" /\ ~page.data.sitelock_enabled) )
       => page.overlay = "removed"
    /\ page.overlay = "splash"
       => /\ page.fetch = "json"
          /\ page.data.sitelock_enabled /\ ~page.data.unlocked
          /\ ~IsAdminStored(page.stored)

====
